---- MODULE Spec2Model ----
(***************************************************************************)
(* A model of the reactivity core of Read-Vue: the dependency registry     *)
(* (targetMap), track / trigger, the effect runtime (effect, stop,         *)
(* cleanup, the effect stack and the tracking-state stack), the mutable    *)
(* proxy handlers for plain objects and arrays, ref and computed.          *)
(*                                                                         *)
(* The runtime is single threaded and re-entrant: a write inside an effect *)
(* runs other effects before the write returns.  The model keeps the call  *)
(* stack of the JavaScript program explicitly (variable stack).  One step  *)
(* of the model is one handler of the library run up to the point where it *)
(* calls into a user function (an effect's raw function) or returns.       *)
(* User functions are small straight-line programs (Body) and the main     *)
(* program is a fixed setup followed by MaxOps operations chosen from a    *)
(* menu; both are given per program (variable sc).                         *)
(***************************************************************************)
EXTENDS Integers, Sequences, FiniteSets, TLC

\* Number of operations the main program issues after its setup.
MaxOps == 3

\* Largest array index that has a key (the keys "0" .. ToString(MaxIndex)).
MaxIndex == 8

(***************************************************************************)
(* JavaScript values.                                                      *)
(***************************************************************************)
Num(n) == [t |-> "num", n |-> n]
NaN == [t |-> "nan", n |-> 0]
Undefined == [t |-> "undef", n |-> 0]
\* No own property under the key (for an array element: a hole).
Absent == [t |-> "absent", n |-> 0]
\* A plain object identity, and the reactive proxy of that object.
Obj(i) == [t |-> "obj", n |-> i]
Proxy(i) == [t |-> "proxy", n |-> i]
\* The ref cell (target "r") stored as a property value.
RefCell == [t |-> "refcell", n |-> 0]

\* The reactive proxy of the object "o".
ProxyO == Proxy(0)

\* An array that is not reactive: n is its identity, el its elements.
ArrVal(id, els) == [t |-> "array", n |-> id, el |-> els]

\* The object a watcher's oldValue starts as, for a source that is no array.
INITIAL_WATCHER_VALUE == [t |-> "initial", n |-> 0]

\* Operand of a write: the literal v, or the frame's accumulator plus one
\* (the right-hand side of x.n++).
AccPlusOne == [t |-> "acc+1", n |-> 0]

StrictEq(a, b) == a = b /\ a.t # "nan"

hasChanged(value, oldValue) ==
    ~StrictEq(value, oldValue) /\ (StrictEq(value, value) \/ StrictEq(oldValue, oldValue))

toRaw(v) == IF v.t = "proxy" THEN Obj(v.n) ELSE v

isObject(v) == v.t \in {"obj", "proxy", "refcell"}

reactive(v) == IF v.t = "obj" THEN Proxy(v.n) ELSE v

\* readonly(v): the readonly proxy of an object.
readonly(v) == IF v.t \in {"obj", "proxy"} THEN [t |-> "readonly", n |-> v.n] ELSE v

True == [t |-> "bool", n |-> 1]

convert(v) == IF isObject(v) THEN reactive(v) ELSE v

isRef(v) == v.t = "refcell"

Truthy(v) == ~(v.t \in {"nan", "undef", "absent"} \/ v = Num(0))

\* x + 1 in JavaScript for the values of the model.
PlusOne(v) == IF v.t = "num" THEN Num(v.n + 1) ELSE NaN

\* 2 * x
Twice(v) == IF v.t = "num" THEN Num(2 * v.n) ELSE NaN

(***************************************************************************)
(* Keys.  Property keys are strings; ITERATE_KEY and UserSymbol are        *)
(* symbols.                                                                *)
(***************************************************************************)
ITERATE_KEY == "Symbol(iterate)"
UserSymbol == "Symbol(user)"

isSymbol(k) == k \in {ITERATE_KEY, UserSymbol}

IndexKey(i) == ToString(i)

isIntegerKey(k) == \E i \in 0..MaxIndex : IndexKey(i) = k

KeyIndex(k) == CHOOSE i \in 0..MaxIndex : IndexKey(i) = k

\* ToNumber(key) as the comparison key >= newValue computes it: twice the
\* number (so that "1.5" is an integer), "nan" for a string that is no number,
\* and "throw" for a symbol (TypeError: cannot convert a Symbol to a number).
KeyToNumber(k) ==
    IF isSymbol(k) THEN [kind |-> "throw", twice |-> 0]
    ELSE IF isIntegerKey(k) THEN [kind |-> "num", twice |-> 2 * KeyIndex(k)]
    ELSE IF k = "1.5" THEN [kind |-> "num", twice |-> 3]
    ELSE [kind |-> "nan", twice |-> 0]

(***************************************************************************)
(* Sequence helpers.                                                       *)
(***************************************************************************)
Range(s) == {s[i] : i \in 1..Len(s)}

InSeq(x, s) == \E i \in 1..Len(s) : s[i] = x

RECURSIVE Without(_, _)
Without(s, x) ==
    IF s = <<>> THEN <<>>
    ELSE IF Head(s) = x THEN Without(Tail(s), x)
    ELSE <<Head(s)>> \o Without(Tail(s), x)

Last(s) == s[Len(s)]

Front(s) == SubSeq(s, 1, Len(s) - 1)

(***************************************************************************)
(* The objects of a program.  "o" is a plain object and "arr" an array,    *)
(* both behind mutable reactive proxies; "r" is a ref; "c1" and "c2" are   *)
(* computed refs whose inner effects are "ec1" and "ec2".  "E", "F", "I",  *)
(* "G", "H" and "O" are effects made by effect(fn, options).  "w1" and      *)
(* "w2" are the runners of the watchers made by watch and watchEffect.     *)
(***************************************************************************)
Targets == {"o", "arr", "r", "c1", "c2"}

ObjKeys == {"a", "b", "ok", "n", "r"}

Computeds == {"c1", "c2"}

Watchers == {"w1", "w2"}

Effects == {"E", "F", "G", "H", "I", "O", "ec1", "ec2"} \cup Watchers

\* The user functions that are not effects: the callback of each watcher, the
\* function its callback registers with onInvalidate, and the onStop option
\* of an effect.
Callbacks == {"cb1", "inv1", "cb2", "inv2", "onStop"}

Functions == Effects \cup Callbacks

\* activeEffect === undefined
NoEffect == "undefined"

isArray(t) == t = "arr"

\* The inner effect of a computed, and back.
EffectOf(c) == IF c = "c1" THEN "ec1" ELSE "ec2"

ComputedOf(e) == IF e = "ec1" THEN "c1" ELSE "c2"

\* The callback and the invalidation function of a watcher, and back.
CbOf(w) == IF w = "w1" THEN "cb1" ELSE "cb2"

InvOf(w) == IF w = "w1" THEN "inv1" ELSE "inv2"

WatcherOf(fn) == IF fn \in {"w1", "cb1", "inv1"} THEN "w1" ELSE "w2"

(***************************************************************************)
(* Instructions of user functions.                                         *)
(*   op    the operation                                                   *)
(*   t, k  target and key, where the operation has them                    *)
(*   v     the value written (or AccPlusOne)                               *)
(*   e     the effect stopped, created or called                           *)
(*   when  "always", or "truthy" / "falsy": run only if the last value     *)
(*         read by an instruction with setc was truthy / falsy             *)
(***************************************************************************)
Ins(op, t, k, v, e) ==
    [op |-> op, t |-> t, k |-> k, v |-> v, e |-> e, when |-> "always", setc |-> FALSE]

Get(t, k) == Ins("get", t, k, Undefined, NoEffect)
Set(t, k, v) == Ins("set", t, k, v, NoEffect)
Delete(t, k) == Ins("delete", t, k, Undefined, NoEffect)
Has(t, k) == Ins("has", t, k, Undefined, NoEffect)
OwnKeys(t) == Ins("ownKeys", t, "", Undefined, NoEffect)
RefGet == Ins("refGet", "r", "value", Undefined, NoEffect)
RefSet(v) == Ins("refSet", "r", "value", v, NoEffect)
ComputedGet(c) == Ins("computedGet", c, "value", Undefined, NoEffect)
NewComputed(c) == Ins("computed", c, "value", Undefined, EffectOf(c))
NewEffect(e) == Ins("effect", "", "", Undefined, e)
NewInnerEffect == Ins("effectNew", "", "", Undefined, NoEffect)
Stop(e) == Ins("stop", "", "", Undefined, e)
Call(e) == Ins("call", "", "", Undefined, e)
Push(v) == Ins("push", "arr", "", v, NoEffect)
Pop == Ins("pop", "arr", "", Undefined, NoEffect)
Shift == Ins("shift", "arr", "", Undefined, NoEffect)
Unshift(v) == Ins("unshift", "arr", "", v, NoEffect)
Splice == Ins("splice", "arr", "", Undefined, NoEffect)
Throw == Ins("throw", "", "", Undefined, NoEffect)
\* Calls of the exported pauseTracking, enableTracking and resetTracking.
PauseTracking == Ins("pauseTracking", "", "", Undefined, NoEffect)
EnableTracking == Ins("enableTracking", "", "", Undefined, NoEffect)
ResetTracking == Ins("resetTracking", "", "", Undefined, NoEffect)
\* Operations through readonly(target) and through shallowReadonly(target).
ReadonlyGet(t, k) == Ins("readonlyGet", t, k, Undefined, NoEffect)
ReadonlySet(t, k, v) == Ins("readonlySet", t, k, v, NoEffect)
ReadonlyDelete(t, k) == Ins("readonlyDelete", t, k, Undefined, NoEffect)
ShallowReadonlyGet(t, k) == Ins("shallowReadonlyGet", t, k, Undefined, NoEffect)
ShallowReadonlySet(t, k, v) == Ins("shallowReadonlySet", t, k, v, NoEffect)
ShallowReadonlyDelete(t, k) == Ins("shallowReadonlyDelete", t, k, Undefined, NoEffect)
\* watch(source, cb, options) or watchEffect(fn, options) that makes watcher w,
\* the call of onInvalidate(fn) by a callback, and await nextTick().
Watch(w) == Ins("watch", "", "", Undefined, w)
OnInvalidate == Ins("onInvalidate", "", "", Undefined, NoEffect)
Flush == Ins("flush", "", "", Undefined, NoEffect)
\* The steps of the getter doWatch builds from the source (see getter below).
SourceItself == Ins("source", "o", "", Undefined, NoEffect)
TraverseResult == Ins("traverse", "", "acc", Undefined, NoEffect)
TraverseArray == Ins("traverse", "", "out", Undefined, NoEffect)
Collect == Ins("collect", "", "", Undefined, NoEffect)
RunCleanup == Ins("cleanup", "", "", Undefined, NoEffect)

Test(ins) == [ins EXCEPT !.setc = TRUE]
IfTruthy(ins) == [ins EXCEPT !.when = "truthy"]
IfFalsy(ins) == [ins EXCEPT !.when = "falsy"]

(***************************************************************************)
(* The state.  The library's handlers are written as operators on a record *)
(* S that holds all of it (see Cur and Commit below), so that a handler    *)
(* that calls another is the composition of the two.                       *)
(***************************************************************************)
VARIABLES
    sc,            \* the name of the program being run
    Program,       \* its text (see Programs below); never changes
    targetMap,     \* target -> sequence of [key, dep], in insertion order;
                   \* dep is the sequence of effects in insertion order
    deps,          \* effect.deps: sequence of <<target, key>>, one per Dep
    active,        \* effect.active
    created,       \* the effect has been made by createReactiveEffect
    effectStack,
    activeEffect,
    shouldTrack,
    trackStack,
    obj,           \* the plain object "o": key -> value (Absent: no property)
    arr,           \* the array "arr": [el: its elements, props: named properties]
    ref,           \* the ref "r": [rawValue, value, shallow]
    comp,          \* computed -> [dirty, value]
    watch,         \* watcher -> [oldValue, cleanup: the function registered by
                   \* onInvalidate (0: none), fns: the functions registered so far]
    pending,       \* the jobs queued by queuePreFlushCb and queuePostRenderEffect
    arrays,        \* the number of arrays the watchers have allocated
    stack,         \* the call stack of the program
    exc,           \* an exception is propagating
    runs,          \* history: function -> number of times it was entered
    readLog,       \* history: effect -> the <<target, key>> it read in its latest run
    onStopCalls,   \* history: effect -> number of calls of options.onStop
    seen,          \* history: function -> the last value its latest completed run read
    wlog,          \* history: watcher -> what happened to it, in order (see Ev)
    marks,         \* history: for each call of pauseTracking or enableTracking by
                   \* a user function that no resetTracking has matched yet,
                   \* the shouldTrack and the depth of trackStack before it
    last,          \* history: what the latest instruction did
    lastMain       \* history: what the latest instruction of the main program did

vars == <<sc, Program, targetMap, deps, active, created, effectStack, activeEffect, shouldTrack,
          trackStack, obj, arr, ref, comp, watch, pending, arrays, stack, exc, runs, readLog,
          onStopCalls, seen, wlog, marks, last, lastMain>>

Cur ==
    [targetMap |-> targetMap, deps |-> deps, active |-> active, created |-> created,
     effectStack |-> effectStack, activeEffect |-> activeEffect,
     shouldTrack |-> shouldTrack, trackStack |-> trackStack,
     obj |-> obj, arr |-> arr, ref |-> ref, comp |-> comp,
     watch |-> watch, pending |-> pending, arrays |-> arrays,
     runs |-> runs, readLog |-> readLog, onStopCalls |-> onStopCalls, seen |-> seen,
     wlog |-> wlog, marks |-> marks]

Commit(S) ==
    /\ targetMap' = S.targetMap
    /\ deps' = S.deps
    /\ active' = S.active
    /\ created' = S.created
    /\ effectStack' = S.effectStack
    /\ activeEffect' = S.activeEffect
    /\ shouldTrack' = S.shouldTrack
    /\ trackStack' = S.trackStack
    /\ obj' = S.obj
    /\ arr' = S.arr
    /\ ref' = S.ref
    /\ comp' = S.comp
    /\ runs' = S.runs
    /\ readLog' = S.readLog
    /\ onStopCalls' = S.onStopCalls
    /\ seen' = S.seen
    /\ watch' = S.watch
    /\ pending' = S.pending
    /\ arrays' = S.arrays
    /\ wlog' = S.wlog
    /\ marks' = S.marks

(***************************************************************************)
(* Properties of the raw targets (Reflect.get / set / deleteProperty).     *)
(***************************************************************************)
ArrProps == {"foo", "1.5", UserSymbol}

\* The own property, Absent if there is none.
OwnProp(S, t, k) ==
    IF t = "o" THEN (IF k \in ObjKeys THEN S.obj[k] ELSE Absent)
    ELSE IF k = "length" THEN Num(Len(S.arr.el))
    ELSE IF isIntegerKey(k)
         THEN (IF KeyIndex(k) < Len(S.arr.el) THEN S.arr.el[KeyIndex(k) + 1] ELSE Absent)
    ELSE IF k \in ArrProps THEN S.arr.props[k]
    ELSE Absent

hasOwn(S, t, k) == OwnProp(S, t, k) # Absent

\* target[key]
ReflectGet(S, t, k) == IF hasOwn(S, t, k) THEN OwnProp(S, t, k) ELSE Undefined

Holes(n) == [i \in 1..n |-> Absent]

ReflectSet(S, t, k, v) ==
    IF t = "o" THEN [S EXCEPT !.obj[k] = v]
    ELSE IF k = "length"
         THEN [S EXCEPT !.arr.el =
                  IF v.n <= Len(@) THEN SubSeq(@, 1, v.n) ELSE @ \o Holes(v.n - Len(@))]
    ELSE IF isIntegerKey(k)
         THEN [S EXCEPT !.arr.el =
                  IF KeyIndex(k) < Len(@) THEN [@ EXCEPT ![KeyIndex(k) + 1] = v]
                  ELSE @ \o Holes(KeyIndex(k) - Len(@)) \o <<v>>]
    ELSE [S EXCEPT !.arr.props[k] = v]

\* The array's length is not configurable: deleting it fails.
ReflectDeleteOk(t, k) == ~(isArray(t) /\ k = "length")

ReflectDelete(S, t, k) ==
    IF ~ReflectDeleteOk(t, k) THEN S
    ELSE IF t = "o" THEN [S EXCEPT !.obj[k] = Absent]
    ELSE IF isIntegerKey(k)
         THEN (IF KeyIndex(k) < Len(S.arr.el)
               THEN [S EXCEPT !.arr.el[KeyIndex(k) + 1] = Absent] ELSE S)
    ELSE [S EXCEPT !.arr.props[k] = Absent]

(***************************************************************************)
(* Programs.  A program gives the initial objects, the raw function and    *)
(* the options of each effect, the setup the main program runs first and   *)
(* the menu of operations it then chooses from.                            *)
(*   sched: "none"     no scheduler                                        *)
(*          "computed" the scheduler of a computed's inner effect          *)
(*          "call"     scheduler: job => job()                             *)
(*          "sync", "pre", "post"  the scheduler doWatch builds for the    *)
(*                     flush option of a watcher                           *)
(*   ret:   what the raw function returns: "undefined", the last value it  *)
(*          read ("acc"), twice that value ("twice") or that plus one      *)
(*   watch: the arguments of watch / watchEffect for each watcher:         *)
(*          source "ref" (the ref r), "reactive" (the proxy of o),         *)
(*          "getter" (the function whose body is body[w]) or "array" (an   *)
(*          array of these, elems); cb: a callback is given (watch);       *)
(*          immediate and deep: the options                                *)
(***************************************************************************)
WatchArgs(source, cb, immediate, deep) ==
    [source |-> source, elems |-> <<>>, cb |-> cb, immediate |-> immediate, deep |-> deep]

NoWatch == WatchArgs("getter", FALSE, FALSE, FALSE)

NoBodies == [e \in Functions |-> <<>>]

DefaultSched ==
    [e \in Effects |->
        IF e \in {"ec1", "ec2"} THEN "computed" ELSE IF e \in Watchers THEN "pre" ELSE "none"]

DefaultRet == [e \in Functions |-> "undefined"]

EmptyArr == [el |-> <<>>, props |-> [k \in ArrProps |-> Absent]]

PlainRef == [rawValue |-> Num(0), value |-> Num(0), shallow |-> FALSE]

BaseProgram ==
    [obj |-> [k \in ObjKeys |-> Absent], arr |-> EmptyArr, ref |-> PlainRef,
     body |-> NoBodies, sched |-> DefaultSched, recurse |-> {}, lazy |-> {"ec1", "ec2"},
     onStop |-> {}, ret |-> DefaultRet, watch |-> [w \in Watchers |-> NoWatch], pool |-> <<>>,
     setup |-> <<>>, menu |-> <<>>]

ObjOf(a, b, ok, n, r) ==
    [k \in ObjKeys |->
        CASE k = "a" -> a [] k = "b" -> b [] k = "ok" -> ok [] k = "n" -> n [] k = "r" -> r]

ArrOf(el) == [el |-> el, props |-> [k \in ArrProps |-> Absent]]

\* Scenario 2 of the specification (an effect that reads o.ok ? o.a : o.b) and
\* scenario 6 (an effect that increments the key it reads); G has a scheduler
\* that runs it at once and writes a key E reads.
ProgBranch ==
    [BaseProgram EXCEPT
        !.obj = ObjOf(Num(1), Absent, Num(1), Num(0), Absent),
        !.body = [NoBodies EXCEPT
                    !["E"] = <<Test(Get("o", "ok")), IfTruthy(Get("o", "a")),
                               IfFalsy(Get("o", "b"))>>,
                    !["F"] = <<Get("o", "n"), Set("o", "n", AccPlusOne)>>,
                    !["G"] = <<Get("o", "n"), Set("o", "a", AccPlusOne)>>],
        !.sched = [DefaultSched EXCEPT !["G"] = "call"],
        !.setup = <<NewEffect("E"), NewEffect("F"), NewEffect("G")>>,
        !.menu = <<Set("o", "ok", Num(0)), Set("o", "ok", Num(1)), Set("o", "a", Num(2)),
                   Set("o", "b", Num(2)), Set("o", "b", NaN), Set("o", "n", Num(5)),
                   Delete("o", "a"), Call("E")>>]

\* stop() called on an effect that is running: by its own function (E), by an
\* effect nested in it (H stops O), and by an effect that the same trigger runs
\* before it (G stops F).  I writes a key its caller E has read.
ProgStop ==
    [BaseProgram EXCEPT
        !.obj = ObjOf(Num(1), Num(1), Num(1), Num(0), Absent),
        !.body = [NoBodies EXCEPT
                    !["E"] = <<Get("o", "a"), Stop("E"), Get("o", "b"), Call("I")>>,
                    !["I"] = <<Set("o", "b", Num(2))>>,
                    !["O"] = <<Get("o", "ok"), Call("H"), Get("o", "a")>>,
                    !["H"] = <<Stop("O")>>,
                    !["G"] = <<Get("o", "n"), Stop("F")>>,
                    !["F"] = <<Get("o", "n"), Call("I")>>],
        !.lazy = {"ec1", "ec2", "I", "H"},
        !.onStop = {"F"},
        !.setup = <<NewEffect("I"), NewEffect("H")>>,
        !.menu = <<NewEffect("E"), NewEffect("O"), NewEffect("G"), NewEffect("F"),
                   Set("o", "a", Num(5)), Set("o", "b", Num(7)), Set("o", "n", Num(3)),
                   Stop("F")>>]

\* Scenario 4 of the specification: the function of O runs the effect I.
ProgNested ==
    [BaseProgram EXCEPT
        !.obj = ObjOf(Num(1), Num(1), Absent, Absent, Absent),
        !.body = [NoBodies EXCEPT
                    !["O"] = <<Call("I"), Get("o", "a")>>,
                    !["I"] = <<Get("o", "b")>>],
        !.lazy = {"ec1", "ec2", "I"},
        !.setup = <<NewEffect("I"), NewEffect("O")>>,
        !.menu = <<Set("o", "a", Num(2)), Set("o", "b", Num(2)), Set("o", "a", Num(3)),
                   Set("o", "b", Num(3)), Call("O"), Call("I")>>]

\* As ProgNested, with an inner effect that pushes to a reactive array.
ProgNestedPush ==
    [BaseProgram EXCEPT
        !.obj = ObjOf(Num(1), Num(1), Absent, Absent, Absent),
        !.body = [NoBodies EXCEPT
                    !["O"] = <<Call("I"), Get("o", "a")>>,
                    !["I"] = <<Push(Num(1)), Get("o", "b")>>],
        !.lazy = {"ec1", "ec2", "I"},
        !.setup = <<NewEffect("I"), NewEffect("O")>>,
        !.menu = <<Set("o", "a", Num(2)), Set("o", "b", Num(2)), Set("o", "a", Num(3)),
                   Call("O")>>]

\* Scenario 5 of the specification: c1 = computed(() => o.n * 2),
\* c2 = computed(() => c1.value + 1), E reads c2.value only, G reads c1.value
\* only, F reads o.n and then c1.value.
ProgComputed ==
    [BaseProgram EXCEPT
        !.obj = ObjOf(Absent, Absent, Absent, Num(1), Absent),
        !.body = [NoBodies EXCEPT
                    !["ec1"] = <<Get("o", "n")>>,
                    !["ec2"] = <<ComputedGet("c1")>>,
                    !["E"] = <<ComputedGet("c2")>>,
                    !["F"] = <<Get("o", "n"), ComputedGet("c1")>>,
                    !["G"] = <<ComputedGet("c1")>>],
        !.ret = [DefaultRet EXCEPT !["ec1"] = "twice", !["ec2"] = "plusOne"],
        !.setup = <<NewComputed("c1"), NewComputed("c2")>>,
        !.menu = <<ComputedGet("c1"), ComputedGet("c2"), Set("o", "n", Num(2)),
                   Set("o", "n", Num(3)), NewEffect("E"), NewEffect("F"), NewEffect("G")>>]

\* A ref r = ref(0) read by E, and the same ref stored in o.r and read
\* through the proxy by F.
ProgRef ==
    [BaseProgram EXCEPT
        !.obj = ObjOf(Absent, Absent, Absent, Absent, RefCell),
        !.body = [NoBodies EXCEPT
                    !["E"] = <<RefGet>>,
                    !["F"] = <<Get("o", "r")>>],
        !.setup = <<NewEffect("E"), NewEffect("F")>>,
        !.menu = <<RefSet(Num(1)), RefSet(NaN), RefSet(Obj(1)), RefSet(Proxy(1)),
                   RefSet(Obj(2)), Set("o", "r", Num(1)), Set("o", "r", Proxy(1))>>]

\* The same with r = shallowRef(0).
ProgShallowRef ==
    [ProgRef EXCEPT
        !.ref = [PlainRef EXCEPT !.shallow = TRUE],
        !.menu = <<RefSet(Num(1)), RefSet(NaN), RefSet(Obj(1)), RefSet(Proxy(1))>>]

\* Scenario 3 of the specification: effects that read the length, an index, a
\* named property, the key "1.5", that test a symbol key and that enumerate
\* the keys of a reactive array.
ProgArray ==
    [BaseProgram EXCEPT
        !.arr = ArrOf(<<Num(1), Num(2), Num(3)>>),
        !.body = [NoBodies EXCEPT
                    !["E"] = <<Get("arr", "length")>>,
                    !["F"] = <<Get("arr", "1")>>,
                    !["G"] = <<Get("arr", "foo")>>,
                    !["H"] = <<Get("arr", "1.5")>>,
                    !["I"] = <<Has("arr", UserSymbol)>>,
                    !["O"] = <<OwnKeys("arr")>>],
        !.setup = <<NewEffect("E"), NewEffect("F"), NewEffect("G")>>,
        !.menu = <<Set("arr", "length", Num(0)), Set("arr", "length", Num(1)),
                   Set("arr", "length", Num(2)), Set("arr", "length", Num(4)),
                   Set("arr", "1", Num(9)), Set("arr", "3", Num(4)), Delete("arr", "1"),
                   NewEffect("H"), NewEffect("I"), NewEffect("O"), Pop>>]

\* Effects that push to the same reactive array (E, F), one that reads the
\* length and pushes (G), and one that only reads the length (I).
ProgPush ==
    [BaseProgram EXCEPT
        !.arr = ArrOf(<<Num(1)>>),
        !.body = [NoBodies EXCEPT
                    !["E"] = <<Push(Num(5))>>,
                    !["F"] = <<Push(Num(6))>>,
                    !["G"] = <<Get("arr", "length"), Push(Num(7))>>,
                    !["I"] = <<Get("arr", "length")>>],
        !.setup = <<NewEffect("I"), NewEffect("E"), NewEffect("F")>>,
        !.menu = <<Push(Num(0)), Pop, Set("arr", "length", Num(0)), NewEffect("G"),
                   Call("E")>>]

\* Effects that call the other length-altering methods.
ProgMutators ==
    [BaseProgram EXCEPT
        !.arr = ArrOf(<<Num(1), Num(2)>>),
        !.body = [NoBodies EXCEPT
                    !["E"] = <<Shift>>,
                    !["F"] = <<Unshift(Num(5))>>,
                    !["G"] = <<Splice>>,
                    !["H"] = <<Pop>>,
                    !["I"] = <<Get("arr", "length"), Get("arr", "0")>>],
        !.setup = <<NewEffect("I")>>,
        !.menu = <<NewEffect("E"), NewEffect("F"), NewEffect("G"), NewEffect("H"),
                   Push(Num(0)), Shift, Unshift(Num(8)), Splice>>]

\* Effects whose function throws: F at once, I when o.ok is truthy (I has read
\* the array's length by then), H when O calls it; E pushes to the array.
ProgThrow ==
    [BaseProgram EXCEPT
        !.obj = ObjOf(Num(1), Num(1), Num(0), Num(0), Absent),
        !.arr = ArrOf(<<Num(1)>>),
        !.body = [NoBodies EXCEPT
                    !["I"] = <<Get("arr", "length"), Test(Get("o", "ok")), IfTruthy(Throw)>>,
                    !["E"] = <<Push(Num(1))>>,
                    !["O"] = <<Get("o", "a"), Call("H"), Get("o", "b")>>,
                    !["H"] = <<Get("o", "n"), Throw>>,
                    !["F"] = <<Get("o", "a"), Throw>>],
        !.lazy = {"ec1", "ec2", "H"},
        !.setup = <<NewEffect("I"), NewEffect("H")>>,
        !.menu = <<Set("o", "ok", Num(1)), NewEffect("E"), NewEffect("O"), NewEffect("F"),
                   Set("o", "a", Num(2)), Set("o", "n", Num(2)), Call("E"), Call("H")>>]

\* w1 = watch(r, cb1) and w2 = watch(r, cb2, { immediate: true, flush: 'post' })
\* on the ref r = ref(0); cb1 registers an invalidation function.
ProgWatchRef ==
    [BaseProgram EXCEPT
        !.body = [NoBodies EXCEPT !["cb1"] = <<OnInvalidate>>],
        !.sched = [DefaultSched EXCEPT !["w2"] = "post"],
        !.watch = [w \in Watchers |->
                      IF w = "w1" THEN WatchArgs("ref", TRUE, FALSE, FALSE)
                      ELSE WatchArgs("ref", TRUE, TRUE, FALSE)],
        !.setup = <<Watch("w1"), Watch("w2")>>,
        !.menu = <<RefSet(Num(1)), RefSet(NaN), Flush, Stop("w1"), Stop("w2")>>]

\* w1 = watch(() => o.ok ? o.a : o.b, cb1, { flush: 'sync' }), whose callback
\* registers an invalidation function, and
\* w2 = watchEffect(onInvalidate => { o.n; onInvalidate(fn) }).
ProgWatchGetter ==
    [BaseProgram EXCEPT
        !.obj = ObjOf(Num(1), Num(1), Num(1), Num(0), Absent),
        !.body = [NoBodies EXCEPT
                    !["w1"] = <<Test(Get("o", "ok")), IfTruthy(Get("o", "a")),
                                IfFalsy(Get("o", "b"))>>,
                    !["cb1"] = <<OnInvalidate>>,
                    !["w2"] = <<Get("o", "n"), OnInvalidate>>],
        !.sched = [DefaultSched EXCEPT !["w1"] = "sync"],
        !.ret = [DefaultRet EXCEPT !["w1"] = "acc"],
        !.watch = [w \in Watchers |->
                      IF w = "w1" THEN WatchArgs("getter", TRUE, FALSE, FALSE)
                      ELSE WatchArgs("getter", FALSE, FALSE, FALSE)],
        !.setup = <<Watch("w1"), Watch("w2")>>,
        !.menu = <<Set("o", "ok", Num(0)), Set("o", "a", Num(2)), Set("o", "b", NaN),
                   Set("o", "n", Num(5)), Flush, Stop("w1"), Stop("w2")>>]

\* w1 = watch([r, () => o.ok ? o.a : o.b], cb1, { immediate: true, flush: 'sync' })
\* and w2 = watch([o], cb2), o being the reactive proxy.
ProgWatchArray ==
    [BaseProgram EXCEPT
        !.obj = ObjOf(Num(1), Num(1), Num(1), Absent, Absent),
        !.body = [NoBodies EXCEPT
                    !["w1"] = <<Test(Get("o", "ok")), IfTruthy(Get("o", "a")),
                                IfFalsy(Get("o", "b"))>>],
        !.sched = [DefaultSched EXCEPT !["w1"] = "sync"],
        !.watch = [w \in Watchers |->
                      IF w = "w1"
                      THEN [WatchArgs("array", TRUE, TRUE, FALSE) EXCEPT
                               !.elems = <<"ref", "getter">>]
                      ELSE [WatchArgs("array", TRUE, FALSE, FALSE) EXCEPT
                               !.elems = <<"reactive">>]],
        !.setup = <<Watch("w1"), Watch("w2")>>,
        !.menu = <<RefSet(Num(1)), Set("o", "ok", Num(0)), Set("o", "a", Num(2)), Flush,
                   Stop("w2")>>]

\* w1 = watch(o, cb1, { flush: 'sync' }) on the reactive proxy, and
\* w2 = watch(() => o.a, cb2, { deep: true, immediate: true, flush: 'post' }).
ProgWatchReactive ==
    [BaseProgram EXCEPT
        !.obj = ObjOf(Num(1), Absent, Absent, Absent, Absent),
        !.body = [NoBodies EXCEPT !["w2"] = <<Get("o", "a")>>],
        !.sched = [DefaultSched EXCEPT !["w1"] = "sync", !["w2"] = "post"],
        !.ret = [DefaultRet EXCEPT !["w2"] = "acc"],
        !.watch = [w \in Watchers |->
                      IF w = "w1" THEN WatchArgs("reactive", TRUE, FALSE, FALSE)
                      ELSE WatchArgs("getter", TRUE, TRUE, TRUE)],
        !.setup = <<Watch("w1"), Watch("w2")>>,
        !.menu = <<Set("o", "a", Num(2)), Set("o", "b", Num(3)), Delete("o", "a"), Flush,
                   Stop("w1")>>]

\* w1 = watch(() => o.n, cb1, { flush: 'sync' }) whose callback writes o.n, and
\* w2 = watchEffect(() => o.n, { flush: 'post' }).
ProgWatchSelf ==
    [BaseProgram EXCEPT
        !.obj = ObjOf(Absent, Absent, Absent, Num(0), Absent),
        !.body = [NoBodies EXCEPT
                    !["w1"] = <<Get("o", "n")>>,
                    !["cb1"] = <<Set("o", "n", Num(9))>>,
                    !["w2"] = <<Get("o", "n")>>],
        !.sched = [DefaultSched EXCEPT !["w1"] = "sync", !["w2"] = "post"],
        !.ret = [DefaultRet EXCEPT !["w1"] = "acc"],
        !.watch = [w \in Watchers |->
                      IF w = "w1" THEN WatchArgs("getter", TRUE, FALSE, FALSE)
                      ELSE WatchArgs("getter", FALSE, FALSE, FALSE)],
        !.setup = <<Watch("w1"), Watch("w2")>>,
        !.menu = <<Set("o", "n", Num(1)), Set("o", "n", Num(2)), Flush, Stop("w1"),
                   Stop("w2")>>]

\* Stop handles called by the watcher's own functions: the getter of
\* w1 = watch(() => { if (o.n) stop1(); return o.n }, cb1, { flush: 'sync' })
\* and the callback of w2 = watch(() => o.a, () => stop2()).
ProgWatchStop ==
    [BaseProgram EXCEPT
        !.obj = ObjOf(Num(1), Absent, Absent, Num(0), Absent),
        !.body = [NoBodies EXCEPT
                    !["w1"] = <<Test(Get("o", "n")), IfTruthy(Stop("w1")), Get("o", "n")>>,
                    !["w2"] = <<Get("o", "a")>>,
                    !["cb2"] = <<Stop("w2")>>],
        !.sched = [DefaultSched EXCEPT !["w1"] = "sync"],
        !.ret = [DefaultRet EXCEPT !["w1"] = "acc", !["w2"] = "acc"],
        !.watch = [w \in Watchers |-> WatchArgs("getter", TRUE, FALSE, FALSE)],
        !.setup = <<Watch("w1"), Watch("w2")>>,
        !.menu = <<Set("o", "n", Num(5)), Set("o", "a", Num(2)), Set("o", "a", Num(3)),
                   Flush, Stop("w1")>>]

\* Effects that read o through readonly(o) (E reads a, G reads the ref in r),
\* through shallowReadonly(o) (I reads a, H reads r) and through the reactive
\* proxy (F reads a and r), and writes and deletes through the three proxies.
ProgReadonly ==
    [BaseProgram EXCEPT
        !.obj = ObjOf(Num(1), Absent, Absent, Absent, RefCell),
        !.body = [NoBodies EXCEPT
                    !["E"] = <<ReadonlyGet("o", "a")>>,
                    !["F"] = <<Get("o", "a"), Get("o", "r")>>,
                    !["G"] = <<ReadonlyGet("o", "r")>>,
                    !["H"] = <<ShallowReadonlyGet("o", "r")>>,
                    !["I"] = <<ShallowReadonlyGet("o", "a")>>],
        !.ret = [DefaultRet EXCEPT !["G"] = "acc", !["H"] = "acc"],
        !.setup = <<NewEffect("E"), NewEffect("F")>>,
        !.menu = <<NewEffect("G"), NewEffect("H"), NewEffect("I"),
                   ReadonlySet("o", "a", Num(2)), ReadonlySet("o", "b", Num(2)),
                   ReadonlySet("o", "r", Num(2)), ShallowReadonlySet("o", "a", Num(2)),
                   ReadonlyDelete("o", "a"), ShallowReadonlyDelete("o", "r"),
                   Set("o", "a", Num(3)), RefSet(Num(1))>>]

\* F = effect(() => o.a, { onStop }) with
\* onStop = () => { if (o.ok) { o.ok = 0; stop(F) } }, and E = effect(() => o.a)
\* without onStop.
ProgOnStop ==
    [BaseProgram EXCEPT
        !.obj = ObjOf(Num(1), Absent, Num(0), Absent, Absent),
        !.body = [NoBodies EXCEPT
                    !["E"] = <<Get("o", "a")>>,
                    !["F"] = <<Get("o", "a")>>,
                    !["onStop"] = <<Test(Get("o", "ok")), IfTruthy(Set("o", "ok", Num(0))),
                                    IfTruthy(Stop("F"))>>],
        !.onStop = {"F"},
        !.setup = <<NewEffect("E"), NewEffect("F")>>,
        !.menu = <<Stop("F"), Stop("E"), Set("o", "ok", Num(1)), Set("o", "a", Num(2)),
                   Call("F")>>]

\* Calls of pauseTracking, enableTracking and resetTracking by the main
\* program, by the function of E around its read of o.b and its call of I, and
\* by the function of I inside those.
ProgTracking ==
    [BaseProgram EXCEPT
        !.obj = ObjOf(Num(1), Num(1), Num(1), Num(1), Absent),
        !.body = [NoBodies EXCEPT
                    !["E"] = <<Get("o", "a"), PauseTracking, Get("o", "b"), Call("I"),
                               ResetTracking, Get("o", "n")>>,
                    !["I"] = <<PauseTracking, EnableTracking, Get("o", "ok"), ResetTracking,
                               Get("o", "a"), ResetTracking, Get("o", "b")>>],
        !.lazy = {"ec1", "ec2", "I"},
        !.setup = <<NewEffect("I")>>,
        !.menu = <<PauseTracking, EnableTracking, ResetTracking, NewEffect("E"), Call("I"),
                   Set("o", "b", Num(2)), Set("o", "ok", Num(2))>>]

\* Effects that read a key more than once in a run: F reads o.n, the ref in
\* o.r and o.n again, E reads o.n twice, G reads the ref directly and through
\* the proxy.
ProgMirror ==
    [BaseProgram EXCEPT
        !.obj = ObjOf(Absent, Absent, Absent, Num(0), RefCell),
        !.body = [NoBodies EXCEPT
                    !["E"] = <<Get("o", "n"), Get("o", "n")>>,
                    !["F"] = <<Get("o", "n"), Get("o", "r"), Get("o", "n")>>,
                    !["G"] = <<RefGet, Get("o", "r")>>],
        !.setup = <<NewEffect("E"), NewEffect("F")>>,
        !.menu = <<Set("o", "n", Num(1)), Set("o", "n", Num(2)), RefSet(Num(1)),
                   NewEffect("G"), Stop("F"), Delete("o", "n"), Call("E")>>]

\* Stopped effects that are invoked: E = effect(() => o.a) and
\* G = effect(() => o.a, { scheduler: job => job() }) by the main program,
\* I by the function of H, and
\* O = effect(() => { if (o.n) { o.n = 0; stop(O); O() }; return o.b })
\* by its own function.
ProgInvoke ==
    [BaseProgram EXCEPT
        !.obj = ObjOf(Num(1), Num(1), Absent, Num(1), Absent),
        !.body = [NoBodies EXCEPT
                    !["E"] = <<Get("o", "a")>>,
                    !["G"] = <<Get("o", "a")>>,
                    !["I"] = <<Get("o", "b")>>,
                    !["H"] = <<Get("o", "a"), Call("I")>>,
                    !["O"] = <<Test(Get("o", "n")), IfTruthy(Set("o", "n", Num(0))),
                               IfTruthy(Stop("O")), IfTruthy(Call("O")), Get("o", "b")>>],
        !.sched = [DefaultSched EXCEPT !["G"] = "call"],
        !.ret = [DefaultRet EXCEPT !["E"] = "acc"],
        !.setup = <<NewEffect("E"), NewEffect("G"), NewEffect("I"), NewEffect("H")>>,
        !.menu = <<Stop("E"), Stop("G"), Stop("I"), Call("E"), Call("G"), Call("H"),
                   Set("o", "a", Num(2)), NewEffect("O")>>]

\* Functions that call onInvalidate twice in one invocation: the callback of
\* w1 = watch(r, cb1, { flush: 'sync' }) and the function of
\* w2 = watchEffect(onInvalidate => { o.n; onInvalidate(f); onInvalidate(g) }).
ProgWatchTwice ==
    [BaseProgram EXCEPT
        !.obj = ObjOf(Absent, Absent, Absent, Num(0), Absent),
        !.body = [NoBodies EXCEPT
                    !["cb1"] = <<OnInvalidate, OnInvalidate>>,
                    !["w2"] = <<Get("o", "n"), OnInvalidate, OnInvalidate>>],
        !.sched = [DefaultSched EXCEPT !["w1"] = "sync"],
        !.watch = [w \in Watchers |->
                      IF w = "w1" THEN WatchArgs("ref", TRUE, FALSE, FALSE)
                      ELSE WatchArgs("getter", FALSE, FALSE, FALSE)],
        !.setup = <<Watch("w1"), Watch("w2")>>,
        !.menu = <<RefSet(Num(1)), RefSet(Num(2)), Set("o", "n", Num(1)), Flush,
                   Stop("w1"), Stop("w2")>>]

\* Effects in several of the Deps a write selects: E tests "b" in o and
\* enumerates the keys of o, G reads the length and index 2 of the array; O only
\* enumerates the keys of o; I = effect(() => o.b, { scheduler: job => job() });
\* F reads o.a and writes o.ok = o.a + 1, which runs H when it changes o.ok, and
\* H then reads o.a for the first time.
ProgMulti ==
    [BaseProgram EXCEPT
        !.obj = ObjOf(Num(-1), Absent, Num(0), Absent, Absent),
        !.arr = ArrOf(<<Num(1), Num(2)>>),
        !.body = [NoBodies EXCEPT
                    !["E"] = <<Has("o", "b"), OwnKeys("o")>>,
                    !["G"] = <<Get("arr", "length"), Get("arr", "2")>>,
                    !["O"] = <<OwnKeys("o")>>,
                    !["I"] = <<Get("o", "b")>>,
                    !["F"] = <<Get("o", "a"), Set("o", "ok", AccPlusOne)>>,
                    !["H"] = <<Test(Get("o", "ok")), IfTruthy(Get("o", "a"))>>],
        !.sched = [DefaultSched EXCEPT !["I"] = "call"],
        !.setup = <<NewEffect("E"), NewEffect("G"), NewEffect("F"), NewEffect("H")>>,
        !.menu = <<Set("o", "b", Num(1)), Delete("o", "b"), Set("o", "a", Num(2)),
                   Set("arr", "2", Num(9)), NewEffect("I"), NewEffect("O")>>]

\* E = effect(() => { o.n = o.n + 1 }, { allowRecurse: true }), and
\* F = effect(() => { o.a; I() }) whose inner effect I writes o.a.
ProgRecurse ==
    [BaseProgram EXCEPT
        !.obj = ObjOf(Num(1), Absent, Absent, Num(0), Absent),
        !.body = [NoBodies EXCEPT
                    !["E"] = <<Get("o", "n"), Set("o", "n", AccPlusOne)>>,
                    !["F"] = <<Get("o", "a"), Call("I")>>,
                    !["I"] = <<Set("o", "a", Num(7))>>],
        !.recurse = {"E"},
        !.lazy = {"ec1", "ec2", "I"},
        !.setup = <<NewEffect("I"), NewEffect("E"), NewEffect("F")>>,
        !.menu = <<Set("o", "n", Num(5)), Call("E"), Set("o", "a", Num(2)), Stop("E"),
                   Set("o", "n", Num(3))>>]

\* Computed refs whose source is written while they are evaluated:
\* c1 = computed(() => { const v = o.n; I(); return v * 2 }) where the effect I
\* writes o.n = 5, and c2 = computed(() => { const v = o.a; o.a = 7; return v + 1 }).
ProgComputedWrite ==
    [BaseProgram EXCEPT
        !.obj = ObjOf(Num(1), Absent, Absent, Num(1), Absent),
        !.body = [NoBodies EXCEPT
                    !["ec1"] = <<Get("o", "n"), Call("I")>>,
                    !["I"] = <<Set("o", "n", Num(5))>>,
                    !["ec2"] = <<Get("o", "a"), Set("o", "a", Num(7))>>],
        !.ret = [DefaultRet EXCEPT !["ec1"] = "twice", !["ec2"] = "plusOne"],
        !.lazy = {"ec1", "ec2", "I"},
        !.setup = <<NewEffect("I"), NewComputed("c1"), NewComputed("c2")>>,
        !.menu = <<ComputedGet("c1"), ComputedGet("c2"), Set("o", "n", Num(2)),
                   Set("o", "a", Num(2))>>]

\* An effect stopped by an effect that the same trigger runs before it:
\* G = effect(() => { if (o.n) { stop(F); stop(H) } }), F = effect(() => o.n) and
\* H = effect(() => o.n, { scheduler: job => job() }), created in this order.
ProgStopDuring ==
    [BaseProgram EXCEPT
        !.obj = ObjOf(Absent, Absent, Absent, Num(0), Absent),
        !.body = [NoBodies EXCEPT
                    !["G"] = <<Test(Get("o", "n")), IfTruthy(Stop("F")), IfTruthy(Stop("H"))>>,
                    !["F"] = <<Get("o", "n")>>,
                    !["H"] = <<Get("o", "n")>>],
        !.sched = [DefaultSched EXCEPT !["H"] = "call"],
        !.setup = <<NewEffect("G"), NewEffect("F"), NewEffect("H")>>,
        !.menu = <<Set("o", "n", Num(3)), Set("o", "n", Num(0)), Set("o", "n", Num(5)),
                   Stop("F")>>]

\* E = effect(() => { if (o.ok) stop(E); o.n; o.n = 9 },
\*            { lazy: true, allowRecurse: true }), called by the main program.
ProgRecurseStop ==
    [BaseProgram EXCEPT
        !.obj = ObjOf(Absent, Absent, Num(1), Num(0), Absent),
        !.body = [NoBodies EXCEPT
                    !["E"] = <<Test(Get("o", "ok")), IfTruthy(Stop("E")), Get("o", "n"),
                               Set("o", "n", Num(9))>>],
        !.recurse = {"E"},
        !.lazy = {"ec1", "ec2", "E"},
        !.setup = <<NewEffect("E")>>,
        !.menu = <<Call("E"), Set("o", "ok", Num(0)), Set("o", "n", Num(1))>>]

\* Functions that call onInvalidate in some invocations only: the callback of
\* w1 = watch(r, (v, old, onInvalidate) => { if (o.ok) onInvalidate(f) },
\* { flush: 'sync' }), and the function of
\* w2 = watchEffect(onInvalidate => { o.n; if (o.ok) onInvalidate(g) },
\* { flush: 'sync' }); the main program sets r.value = 1 after creating them.
ProgWatchOnce ==
    [BaseProgram EXCEPT
        !.obj = ObjOf(Absent, Absent, Num(1), Num(0), Absent),
        !.body = [NoBodies EXCEPT
                    !["cb1"] = <<Test(Get("o", "ok")), IfTruthy(OnInvalidate)>>,
                    !["w2"] = <<Get("o", "n"), Test(Get("o", "ok")), IfTruthy(OnInvalidate)>>],
        !.sched = [DefaultSched EXCEPT !["w1"] = "sync", !["w2"] = "sync"],
        !.watch = [w \in Watchers |->
                      IF w = "w1" THEN WatchArgs("ref", TRUE, FALSE, FALSE)
                      ELSE WatchArgs("getter", FALSE, FALSE, FALSE)],
        !.setup = <<Watch("w1"), Watch("w2"), RefSet(Num(1))>>,
        !.menu = <<Set("o", "ok", Num(0)), RefSet(Num(2)), RefSet(Num(3)),
                   Set("o", "n", Num(1)), Stop("w1"), Stop("w2")>>]

\* O = effect(() => { effect(() => o.b); o.a }): every run of O makes a new
\* effect of the inner function.  The effects of the pool are the instances
\* that the calls of effect() return, in the order of the calls.
ProgInner ==
    [BaseProgram EXCEPT
        !.obj = ObjOf(Num(1), Num(1), Absent, Absent, Absent),
        !.body = [e \in Functions |->
                    IF e = "O" THEN <<NewInnerEffect, Get("o", "a")>>
                    ELSE IF e \in {"I", "H", "G", "F", "E"} THEN <<Get("o", "b")>>
                    ELSE <<>>],
        !.pool = <<"I", "H", "G", "F", "E">>,
        !.setup = <<NewEffect("O")>>,
        !.menu = <<Set("o", "a", Num(2)), Set("o", "a", Num(3)), Set("o", "b", Num(2)),
                   Set("o", "b", Num(3)), Stop("O")>>]

Programs ==
    {"branch", "stop", "nested", "nestedPush", "computed", "ref", "shallowRef", "array",
     "push", "mutators", "throw", "watchRef", "watchGetter", "watchArray",
     "watchReactive", "watchSelf", "watchStop", "watchTwice", "readonly", "onStop",
     "invoke", "tracking", "mirror", "multi", "recurse",
     "computedWrite", "stopDuring", "recurseStop", "watchOnce",
     "inner"}

ProgramOf(name) ==
    CASE name = "branch" -> ProgBranch
      [] name = "stop" -> ProgStop
      [] name = "nested" -> ProgNested
      [] name = "nestedPush" -> ProgNestedPush
      [] name = "computed" -> ProgComputed
      [] name = "ref" -> ProgRef
      [] name = "shallowRef" -> ProgShallowRef
      [] name = "array" -> ProgArray
      [] name = "push" -> ProgPush
      [] name = "mutators" -> ProgMutators
      [] name = "throw" -> ProgThrow
      [] name = "watchRef" -> ProgWatchRef
      [] name = "watchGetter" -> ProgWatchGetter
      [] name = "watchArray" -> ProgWatchArray
      [] name = "watchReactive" -> ProgWatchReactive
      [] name = "watchSelf" -> ProgWatchSelf
      [] name = "watchStop" -> ProgWatchStop
      [] name = "watchTwice" -> ProgWatchTwice
      [] name = "readonly" -> ProgReadonly
      [] name = "onStop" -> ProgOnStop
      [] name = "invoke" -> ProgInvoke
      [] name = "tracking" -> ProgTracking
      [] name = "mirror" -> ProgMirror
      [] name = "multi" -> ProgMulti
      [] name = "recurse" -> ProgRecurse
      [] name = "computedWrite" -> ProgComputedWrite
      [] name = "stopDuring" -> ProgStopDuring
      [] name = "recurseStop" -> ProgRecurseStop
      [] name = "watchOnce" -> ProgWatchOnce
      [] name = "inner" -> ProgInner

Body(e) == Program.body[e]

Scheduler(e) == Program.sched[e]

AllowRecurse(e) == e \in Program.recurse

\* doWatch makes its runner with lazy: true.
Lazy(e) == e \in Program.lazy \/ e \in Watchers

\* The arguments of doWatch for watcher w.
HasCb(w) == Program.watch[w].cb

IsRefSource(w) == Program.watch[w].source = "ref"

IsArraySource(w) == Program.watch[w].source = "array"

\* deep, which doWatch sets for a reactive source.
Deep(w) == Program.watch[w].deep \/ Program.watch[w].source = "reactive"

Immediate(w) == Program.watch[w].immediate

\* effect.options.onStop is set: by the options of effect(fn, options), or for
\* a watcher's runner by onInvalidate.
HasOnStop(S, e) == IF e \in Watchers THEN S.watch[e].cleanup # 0 ELSE e \in Program.onStop

\* The function effect.options.onStop calls.
OnStopFn(e) == IF e \in Watchers THEN InvOf(e) ELSE "onStop"

(***************************************************************************)
(* effect.ts: the registry, track and trigger, the effect runtime.         *)
(***************************************************************************)
\* Position of key in a depsMap, 0 if the key has no Dep.
DepIndex(depsMap, key) ==
    IF \E i \in 1..Len(depsMap) : depsMap[i].key = key
    THEN CHOOSE i \in 1..Len(depsMap) : depsMap[i].key = key
    ELSE 0

\* depsMap.get(key); the empty sequence stands for undefined and for an empty Dep.
DepGet(depsMap, key) ==
    IF DepIndex(depsMap, key) = 0 THEN <<>> ELSE depsMap[DepIndex(depsMap, key)].dep

pauseTracking(S) ==
    [S EXCEPT !.trackStack = Append(@, S.shouldTrack), !.shouldTrack = FALSE]

enableTracking(S) ==
    [S EXCEPT !.trackStack = Append(@, S.shouldTrack), !.shouldTrack = TRUE]

\* A resetTracking that pops the stack and enables tracking.
resetTrackingToTrue(S) ==
    [S EXCEPT !.trackStack = IF @ = <<>> THEN @ ELSE Front(@), !.shouldTrack = TRUE]

resetTracking(S) ==
    IF S.trackStack = <<>> THEN [S EXCEPT !.shouldTrack = TRUE]
    ELSE [S EXCEPT !.trackStack = Front(@), !.shouldTrack = Last(S.trackStack)]

\* A track that pushes the Dep onto activeEffect.deps without testing whether
\* the Dep has the effect already.
trackWithoutHasTest(S, target, key) ==
    IF ~S.shouldTrack \/ S.activeEffect = NoEffect THEN S
    ELSE LET depsMap == IF DepIndex(S.targetMap[target], key) = 0
                        THEN Append(S.targetMap[target], [key |-> key, dep |-> <<>>])
                        ELSE S.targetMap[target]
             i == DepIndex(depsMap, key)
         IN  [S EXCEPT
                !.targetMap[target] =
                    [depsMap EXCEPT ![i].dep = IF InSeq(S.activeEffect, @) THEN @
                                               ELSE Append(@, S.activeEffect)],
                !.deps[S.activeEffect] = Append(@, <<target, key>>)]

\* A track that subscribes the current effect also while tracking is paused.
trackWhilePaused(S, target, key) ==
    IF S.activeEffect = NoEffect THEN S
    ELSE LET depsMap == IF DepIndex(S.targetMap[target], key) = 0
                        THEN Append(S.targetMap[target], [key |-> key, dep |-> <<>>])
                        ELSE S.targetMap[target]
             i == DepIndex(depsMap, key)
         IN  IF InSeq(S.activeEffect, depsMap[i].dep)
             THEN [S EXCEPT !.targetMap[target] = depsMap]
             ELSE [S EXCEPT
                     !.targetMap[target] =
                         [depsMap EXCEPT ![i].dep = Append(@, S.activeEffect)],
                     !.deps[S.activeEffect] = Append(@, <<target, key>>)]

track(S, target, key) ==
    IF ~S.shouldTrack \/ S.activeEffect = NoEffect THEN S
    ELSE LET depsMap == IF DepIndex(S.targetMap[target], key) = 0
                        THEN Append(S.targetMap[target], [key |-> key, dep |-> <<>>])
                        ELSE S.targetMap[target]
             i == DepIndex(depsMap, key)
         IN  IF InSeq(S.activeEffect, depsMap[i].dep)
             THEN [S EXCEPT !.targetMap[target] = depsMap]
             ELSE [S EXCEPT
                     !.targetMap[target] =
                         [depsMap EXCEPT ![i].dep = Append(@, S.activeEffect)],
                     !.deps[S.activeEffect] = Append(@, <<target, key>>)]

\* A cleanup that empties effect.deps and leaves the effect in its Deps.
cleanupOwnListOnly(S, effect) == [S EXCEPT !.deps[effect] = <<>>]

cleanup(S, effect) ==
    [S EXCEPT
        !.targetMap = [t \in Targets |->
            [i \in 1..Len(S.targetMap[t]) |->
                IF InSeq(<<t, S.targetMap[t][i].key>>, S.deps[effect])
                THEN [S.targetMap[t][i] EXCEPT !.dep = Without(@, effect)]
                ELSE S.targetMap[t][i]]],
        !.deps[effect] = <<>>]

\* An add that collects the effects in an array: an effect of two selected Deps
\* is collected twice.
RECURSIVE addToArray(_, _, _)
addToArray(S, effects, effectsToAdd) ==
    IF effectsToAdd = <<>> THEN effects
    ELSE LET effect == Head(effectsToAdd)
         IN  addToArray(S,
                        IF effect # S.activeEffect \/ AllowRecurse(effect)
                        THEN Append(effects, effect) ELSE effects,
                        Tail(effectsToAdd))

\* The closure add of trigger: the effects of one Dep, in the Dep's order, are
\* added to the set effects (a Set keeps the order of first insertion).
RECURSIVE add(_, _, _)
add(S, effects, effectsToAdd) ==
    IF effectsToAdd = <<>> THEN effects
    ELSE LET effect == Head(effectsToAdd)
         IN  add(S,
                 IF (effect # S.activeEffect \/ AllowRecurse(effect)) /\ ~InSeq(effect, effects)
                 THEN Append(effects, effect) ELSE effects,
                 Tail(effectsToAdd))

\* key >= newValue
KeyGE(key, newValue) ==
    KeyToNumber(key).kind = "num" /\ newValue.t = "num"
        /\ KeyToNumber(key).twice >= 2 * newValue.n

\* depsMap.forEach of the branch for an array's length, from entry i on.
RECURSIVE lengthEffects(_, _, _, _, _)
lengthEffects(S, depsMap, i, newValue, effects) ==
    IF i > Len(depsMap) THEN [effects |-> effects, threw |-> FALSE]
    ELSE IF depsMap[i].key = "length"
         THEN lengthEffects(S, depsMap, i + 1, newValue, add(S, effects, depsMap[i].dep))
    ELSE IF KeyToNumber(depsMap[i].key).kind = "throw"
         THEN [effects |-> <<>>, threw |-> TRUE]
    ELSE IF KeyGE(depsMap[i].key, newValue)
         THEN lengthEffects(S, depsMap, i + 1, newValue, add(S, effects, depsMap[i].dep))
    ELSE lengthEffects(S, depsMap, i + 1, newValue, effects)

\* depsMap.forEach(add) of the branch for CLEAR.
RECURSIVE allEffects(_, _, _, _)
allEffects(S, depsMap, i, effects) ==
    IF i > Len(depsMap) THEN effects
    ELSE allEffects(S, depsMap, i + 1, add(S, effects, depsMap[i].dep))

\* A trigger that selects the Dep of ITERATE_KEY for every ADD and DELETE, on
\* arrays too.
triggerIterateOnArrays(S, target, type, key, newValue) ==
    LET depsMap == S.targetMap[target]
    IN  IF depsMap = <<>> THEN [effects |-> <<>>, threw |-> FALSE]
        ELSE IF type = "clear"
             THEN [effects |-> allEffects(S, depsMap, 1, <<>>), threw |-> FALSE]
        ELSE IF key = "length" /\ isArray(target)
             THEN lengthEffects(S, depsMap, 1, newValue, <<>>)
        ELSE LET byKey == add(S, <<>>, DepGet(depsMap, key))
                 iterate == add(S, byKey, DepGet(depsMap, ITERATE_KEY))
             IN  [effects |->
                    CASE type = "add" ->
                            IF isArray(target) /\ isIntegerKey(key)
                            THEN add(S, iterate, DepGet(depsMap, "length"))
                            ELSE iterate
                      [] type = "delete" -> iterate
                      [] OTHER -> byKey,
                  threw |-> FALSE]

\* The effects trigger collects, in the order it runs them, or the TypeError
\* its comparison raises.  Running them is TriggerRun below.
trigger(S, target, type, key, newValue) ==
    LET depsMap == S.targetMap[target]
    IN  IF depsMap = <<>> THEN [effects |-> <<>>, threw |-> FALSE]
        ELSE IF type = "clear"
             THEN [effects |-> allEffects(S, depsMap, 1, <<>>), threw |-> FALSE]
        ELSE IF key = "length" /\ isArray(target)
             THEN lengthEffects(S, depsMap, 1, newValue, <<>>)
        ELSE LET byKey == add(S, <<>>, DepGet(depsMap, key))
             IN  [effects |->
                    CASE type = "add" ->
                            IF ~isArray(target)
                            THEN add(S, byKey, DepGet(depsMap, ITERATE_KEY))
                            ELSE IF isIntegerKey(key)
                                 THEN add(S, byKey, DepGet(depsMap, "length"))
                                 ELSE byKey
                      [] type = "delete" ->
                            IF ~isArray(target)
                            THEN add(S, byKey, DepGet(depsMap, ITERATE_KEY))
                            ELSE byKey
                      [] OTHER -> byKey,
                  threw |-> FALSE]

(***************************************************************************)
(* Call-stack frames.                                                      *)
(*   run      a raw function being executed; tracked is FALSE when the     *)
(*            function runs outside the effect runtime (the main program,  *)
(*            and the raw function of a stopped effect); saved is history  *)
(*   trigger  the loop effects.forEach(run) of trigger; from and invoked   *)
(*            are history                                                  *)
(*   cget     the getter of computed c waiting for this.effect()           *)
(*   stop     stop(e) waiting for options.onStop()                         *)
(*   job      the job of watcher w: waiting for runner() (phase "runner"), *)
(*            for cleanup() ("cleanup") or for cb ("cb")                   *)
(*   seed     doWatch waiting for runner() to assign oldValue              *)
(*   flush    the scheduler flushing the queued jobs                       *)
(* In a run frame, out holds the elements source.map has produced.         *)
(***************************************************************************)
\* History: the state of the effect runtime when an invocation began.
Saved(S) ==
    [effectStack |-> S.effectStack, activeEffect |-> S.activeEffect,
     shouldTrack |-> S.shouldTrack, depth |-> Len(S.trackStack)]

NoSaved == [effectStack |-> <<>>, activeEffect |-> NoEffect, shouldTrack |-> TRUE, depth |-> 0]

RunFrame(e, tracked) ==
    [k |-> "run", e |-> e, pc |-> 1, acc |-> Undefined, cond |-> FALSE, tracked |-> tracked,
     out |-> <<>>, saved |-> NoSaved]

\* History: the call trigger(target, type, key, newValue), the KeyMap of the
\* target and the current effect when the call began.
TriggerCall(S, target, type, key, newValue) ==
    [target |-> target, type |-> type, key |-> key, newValue |-> newValue,
     depsMap |-> S.targetMap[target], activeEffect |-> S.activeEffect]

TriggerFrame(effects, from) ==
    [k |-> "trigger", effects |-> effects, i |-> 1, from |-> from, invoked |-> <<>>]

CGetFrame(c) == [k |-> "cget", c |-> c, result |-> Undefined]

StopFrame(e) == [k |-> "stop", e |-> e]

JobFrame(w) == [k |-> "job", w |-> w, phase |-> "runner", result |-> Undefined]

SeedFrame(w) == [k |-> "seed", w |-> w, result |-> Undefined]

FlushFrame == [k |-> "flush", jobs |-> <<>>, i |-> 1]

\* The frame is waiting for the value of the effect it has called.
Awaits(f) == f.k \in {"cget", "seed"} \/ (f.k = "job" /\ f.phase = "runner")

\* History: an event of a watcher.  "run": its getter is entered; "cb": its
\* callback is called with new and old; "reg": onInvalidate registers function
\* id; "inv": function id is called; "stop": its stop handle is called.
Ev(ev, id, new, old) == [ev |-> ev, id |-> id, new |-> new, old |-> old]

NoWatcher == [oldValue |-> INITIAL_WATCHER_VALUE, cleanup |-> 0, fns |-> 0]

\* What a handler hands back: the new state, the frames it pushes (the calls it
\* makes into user functions), the value it returns, whether it threw, and for
\* a write the kind of trigger and the effects the trigger collected.
Result(S, frames, value) ==
    [S |-> S, frames |-> frames, value |-> value, threw |-> FALSE,
     type |-> "none", effects |-> <<>>]

\* stop(effect), up to its call of options.onStop.
stop(S, effect) ==
    IF S.active[effect]
    THEN LET S1 == cleanup(S, effect)
         IN  IF HasOnStop(S1, effect)
             THEN Result([S1 EXCEPT !.onStopCalls[effect] = @ + 1],
                         <<StopFrame(effect), RunFrame(OnStopFn(effect), FALSE)>>, Undefined)
             ELSE Result([S1 EXCEPT !.active[effect] = FALSE], <<>>, Undefined)
    ELSE Result(S, <<>>, Undefined)

\* stop(effect) after options.onStop has returned.
stopEnd(S, effect) == [S EXCEPT !.active[effect] = FALSE]

\* The function reactiveEffect that createReactiveEffect returns, up to its
\* call of fn.
reactiveEffect(S, effect) ==
    IF ~S.active[effect]
    THEN IF Scheduler(effect) # "none" THEN Result(S, <<>>, Undefined)
         ELSE Result(S, <<RunFrame(effect, FALSE)>>, Undefined)
    ELSE IF ~InSeq(effect, S.effectStack)
    THEN LET S1 == enableTracking(cleanup(S, effect))
         IN  Result([S1 EXCEPT !.effectStack = Append(@, effect),
                               !.activeEffect = effect],
                    <<[RunFrame(effect, TRUE) EXCEPT !.saved = Saved(S)]>>, Undefined)
    ELSE Result(S, <<>>, Undefined)

\* A finally block that pops the effect stack and leaves activeEffect as it is.
finallyKeepsActiveEffect(S) == resetTracking([S EXCEPT !.effectStack = Front(@)])

\* The finally block of reactiveEffect.
finally(S) ==
    LET S1 == resetTracking([S EXCEPT !.effectStack = Front(@)])
    IN  [S1 EXCEPT !.activeEffect =
            IF S1.effectStack = <<>> THEN NoEffect ELSE Last(S1.effectStack)]

\* An effect() that replaces the effects made earlier from the pool: it
\* deactivates them.
effectReplacesInstances(S, e) ==
    LET S0 == [S EXCEPT !.active = [x \in Effects |->
                                       IF x \in Range(Program.pool) THEN FALSE ELSE @[x]]]
        S1 == [S0 EXCEPT !.created[e] = TRUE, !.active[e] = TRUE, !.deps[e] = <<>>]
    IN  IF ~Lazy(e) THEN reactiveEffect(S1, e) ELSE Result(S1, <<>>, Undefined)

\* The effects of the pool that effect() has not returned yet, first first.
FreshInstances(S) == SelectSeq(Program.pool, LAMBDA e : ~S.created[e])

\* effect(fn, options)
effect(S, e) ==
    LET S1 == [S EXCEPT !.created[e] = TRUE, !.active[e] = TRUE, !.deps[e] = <<>>]
    IN  IF ~Lazy(e) THEN reactiveEffect(S1, e) ELSE Result(S1, <<>>, Undefined)

\* A handler that ends by calling trigger: the trigger's frame is pushed when
\* it collected effects, the TypeError propagates when it threw.
Triggered(S, target, type, key, newValue) ==
    LET r == trigger(S, target, type, key, newValue)
    IN  [S |-> S,
         frames |-> IF r.threw \/ r.effects = <<>> THEN <<>>
                    ELSE <<TriggerFrame(r.effects, TriggerCall(S, target, type, key, newValue))>>,
         value |-> Undefined, threw |-> r.threw, type |-> type, effects |-> r.effects]

(***************************************************************************)
(* ref.ts: RefImpl.                                                        *)
(***************************************************************************)
RefGetter(S) == Result(track(S, "r", "value"), <<>>, S.ref.value)

RefSetter(S, newVal) ==
    IF hasChanged(toRaw(newVal), S.ref.rawValue)
    THEN Triggered([S EXCEPT !.ref.rawValue = newVal,
                             !.ref.value = IF S.ref.shallow THEN newVal ELSE convert(newVal)],
                   "r", "set", "value", newVal)
    ELSE Result(S, <<>>, Undefined)

(***************************************************************************)
(* baseHandlers.ts: the handlers of a mutable (non-shallow) proxy.         *)
(***************************************************************************)
\* The function createGetter(isReadonly, shallow) returns, for a key that is
\* not an instrumented array method.
createGetter(S, isReadonly, shallow, target, key) ==
    LET res == ReflectGet(S, target, key)
        S1 == IF ~isReadonly THEN track(S, target, key) ELSE S
    IN  IF shallow THEN Result(S1, <<>>, res)
        ELSE IF isRef(res)
             THEN IF ~isArray(target) \/ ~isIntegerKey(key) THEN RefGetter(S1)
                  ELSE Result(S1, <<>>, res)
        ELSE IF isObject(res)
             THEN Result(S1, <<>>, IF isReadonly THEN readonly(res) ELSE reactive(res))
        ELSE Result(S1, <<>>, res)

get(S, target, key) == createGetter(S, FALSE, FALSE, target, key)

readonlyGet(S, target, key) == createGetter(S, TRUE, FALSE, target, key)

shallowReadonlyGet(S, target, key) == createGetter(S, TRUE, TRUE, target, key)

\* A setter that triggers SET for a present key without comparing the values.
setWithoutHasChanged(S, target, key, newValue) ==
    LET value == toRaw(newValue)
        hadKey == IF isArray(target) /\ isIntegerKey(key)
                  THEN KeyIndex(key) < Len(S.arr.el)
                  ELSE hasOwn(S, target, key)
        S1 == ReflectSet(S, target, key, value)
    IN  IF ~isArray(target) /\ isRef(ReflectGet(S, target, key)) /\ ~isRef(value)
        THEN RefSetter(S, value)
        ELSE Triggered(S1, target, IF hadKey THEN "set" ELSE "add", key, value)

\* createSetter().  The else branch of if (!shallow) holds only a comment: its
\* closing brace is missing in the file, and the statements after it are
\* indented as the body of set, which is how they are read here.
set(S, target, key, newValue) ==
    LET oldValue == ReflectGet(S, target, key)
        value == toRaw(newValue)
    IN  IF ~isArray(target) /\ isRef(oldValue) /\ ~isRef(value)
        THEN RefSetter(S, value)
        ELSE LET hadKey == IF isArray(target) /\ isIntegerKey(key)
                           THEN KeyIndex(key) < Len(S.arr.el)
                           ELSE hasOwn(S, target, key)
                 S1 == ReflectSet(S, target, key, value)
             IN  IF ~hadKey THEN Triggered(S1, target, "add", key, value)
                 ELSE IF hasChanged(value, oldValue)
                      THEN Triggered(S1, target, "set", key, value)
                 ELSE Result(S1, <<>>, Undefined)

deleteProperty(S, target, key) ==
    LET hadKey == hasOwn(S, target, key)
        result == ReflectDeleteOk(target, key)
        S1 == ReflectDelete(S, target, key)
    IN  IF result /\ hadKey THEN Triggered(S1, target, "delete", key, Undefined)
        ELSE Result(S1, <<>>, Undefined)

\* A set trap of a readonly proxy that writes as the mutable one does.
readonlySetWrites(S, target, key, newValue) ==
    [set(S, target, key, newValue) EXCEPT !.value = True]

\* readonlyHandlers.set and readonlyHandlers.deleteProperty, which
\* shallowReadonlyHandlers has too.
readonlySet(S, target, key, newValue) == Result(S, <<>>, True)

readonlyDeleteProperty(S, target, key) == Result(S, <<>>, True)

has(S, target, key) ==
    Result(track(S, target, key), <<>>,
           IF hasOwn(S, target, key) THEN Num(1) ELSE Num(0))

ownKeys(S, target) == Result(track(S, target, ITERATE_KEY), <<>>, Undefined)

(***************************************************************************)
(* computed.ts: ComputedRefImpl.                                           *)
(***************************************************************************)
\* new ComputedRefImpl(getter, setter, isReadonly)
computed(S, c) ==
    LET r == effect(S, EffectOf(c))
    IN  [r EXCEPT !.S.comp[c] = [dirty |-> TRUE, value |-> Undefined]]

\* A scheduler that marks the cache dirty and triggers nothing.
computedSchedulerSilent(S, c) ==
    Result([S EXCEPT !.comp[c].dirty = TRUE], <<>>, Undefined)

\* A scheduler that triggers the subscribers at every call.
computedSchedulerAlways(S, c) ==
    Triggered([S EXCEPT !.comp[c].dirty = TRUE], c, "set", "value", Undefined)

\* The scheduler the constructor gives the inner effect.
computedScheduler(S, c) ==
    IF ~S.comp[c].dirty
    THEN Triggered([S EXCEPT !.comp[c].dirty = TRUE], c, "set", "value", Undefined)
    ELSE Result(S, <<>>, Undefined)

\* A getter that stores the value and forgets to clear _dirty.
computedGetEndStaysDirty(S, c, result) ==
    Result(track([S EXCEPT !.comp[c].value = result], c, "value"), <<>>, result)

\* get value(), from this.effect() having returned result to its end.
computedGetEnd(S, c, result) ==
    LET S1 == [S EXCEPT !.comp[c].value = result, !.comp[c].dirty = FALSE]
    IN  Result(track(S1, c, "value"), <<>>, result)

\* get value(): when dirty, up to the call of fn inside this.effect(); the
\* frame cget finishes the getter when the effect has returned.
computedGet(S, c) ==
    IF S.comp[c].dirty
    THEN LET r == reactiveEffect(S, EffectOf(c))
         IN  [r EXCEPT !.frames = <<CGetFrame(c)>> \o @]
    ELSE Result(track(S, c, "value"), <<>>, S.comp[c].value)

(***************************************************************************)
(* baseHandlers.ts: arrayInstrumentations for push, pop, shift, unshift    *)
(* and splice.  The native method runs on the proxy: every property        *)
(* access it makes goes through the proxy's handlers.  Its accesses, as    *)
(* ECMAScript orders them for an array of length len, are the plan:        *)
(*   <<"get", key>>          Get(O, key)                                   *)
(*   <<"move", from, to>>    if HasProperty(O, from) then                  *)
(*                           Set(O, to, Get(O, from)) else Delete(O, to)   *)
(*   <<"set", key, v>>       Set(O, key, v)                                *)
(*   <<"delete", key>>       DeletePropertyOrThrow(O, key)                 *)
(* splice is splice(0, 1) and unshift takes one item.                      *)
(***************************************************************************)
SetLength(n) == <<"set", "length", Num(n)>>

MovesDown(len) == [j \in 1..(len - 1) |-> <<"move", IndexKey(j), IndexKey(j - 1)>>]

MovesUp(len) == [j \in 1..len |-> <<"move", IndexKey(len - j), IndexKey(len - j + 1)>>]

Plan(method, len, v) ==
    CASE method = "push" -> <<<<"set", IndexKey(len), v>>, SetLength(len + 1)>>
      [] method = "pop" ->
            IF len = 0 THEN <<SetLength(0)>>
            ELSE <<<<"get", IndexKey(len - 1)>>, <<"delete", IndexKey(len - 1)>>,
                   SetLength(len - 1)>>
      [] method = "shift" ->
            IF len = 0 THEN <<SetLength(0)>>
            ELSE <<<<"get", "0">>>> \o MovesDown(len)
                    \o <<<<"delete", IndexKey(len - 1)>>, SetLength(len - 1)>>
      [] method = "unshift" ->
            MovesUp(len) \o <<<<"set", "0", v>>, SetLength(len + 1)>>
      [] method = "splice" ->
            IF len = 0 THEN <<SetLength(0)>>
            ELSE <<<<"get", "constructor">>, <<"get", "0">>>> \o MovesDown(len)
                    \o <<<<"delete", IndexKey(len - 1)>>, SetLength(len - 1)>>

NativeFrame(method, plan) == [k |-> "native", method |-> method, plan |-> plan, i |-> 1]

\* An instrumentation that calls the native method without pausing tracking.
arrayMethodTracked(S, method, v) ==
    LET len == get(S, "arr", "length")
    IN  Result(len.S, <<NativeFrame(method, Plan(method, len.value.n, v))>>, Undefined)

\* arrayInstrumentations[key] up to the first property access of the native
\* method after it has read the length: pauseTracking(), then method.apply.
arrayMethod(S, method, v) ==
    LET S1 == pauseTracking(S)
        len == get(S1, "arr", "length")
    IN  Result(len.S, <<NativeFrame(method, Plan(method, len.value.n, v))>>, Undefined)

\* One property access of the native method.
nativeAccess(S, op) ==
    CASE op[1] = "get" -> get(S, "arr", op[2])
      [] op[1] = "set" -> set(S, "arr", op[2], op[3])
      [] op[1] = "delete" -> deleteProperty(S, "arr", op[2])
      [] op[1] = "move" ->
            LET present == has(S, "arr", op[2])
            IN  IF present.value = Num(1)
                THEN LET from == get(present.S, "arr", op[2])
                     IN  set(from.S, "arr", op[3], from.value)
                ELSE deleteProperty(present.S, "arr", op[3])

\* arrayInstrumentations[key] after method.apply has returned.
arrayMethodEnd(S) == enableTracking(S)

(***************************************************************************)
(* apiWatch.ts: doWatch.  The watchers are made outside a component        *)
(* (instance is null), and their functions raise no error.                 *)
(***************************************************************************)
\* The own keys of o, in the order for ... in visits them.
KeyOrder == <<"a", "b", "ok", "n", "r">>

\* The loop of traverse over the keys of the proxy of o, from key i on.  The
\* properties of o hold primitive values, or the ref r whose value is one.
RECURSIVE traverseKeys(_, _)
traverseKeys(S, i) ==
    IF i > Len(KeyOrder) THEN S
    ELSE traverseKeys(IF hasOwn(S, "o", KeyOrder[i]) THEN get(S, "o", KeyOrder[i]).S ELSE S,
                      i + 1)

RECURSIVE traverse(_, _)
RECURSIVE traverseElements(_, _, _)
\* The loop of traverse over the elements of an array that is not reactive.
traverseElements(S, els, i) ==
    IF i > Len(els) THEN S ELSE traverseElements(traverse(S, els[i]), els, i + 1)

\* traverse(value)
traverse(S, value) ==
    IF value = ProxyO THEN traverseKeys(ownKeys(S, "o").S, 1)
    ELSE IF value.t = "array" THEN traverseElements(S, value.el, 1)
    ELSE S

\* History: the keys traverse(value) reads.
RECURSIVE TraverseReads(_, _)
TraverseReads(S, value) ==
    IF value = ProxyO
    THEN {<<"o", ITERATE_KEY>>} \cup {<<"o", k>> : k \in {j \in ObjKeys : hasOwn(S, "o", j)}}
            \cup IF isRef(S.obj["r"]) THEN {<<"r", "value">>} ELSE {}
    ELSE IF value.t = "array"
         THEN UNION {TraverseReads(S, value.el[i]) : i \in 1..Len(value.el)}
    ELSE {}

\* The callback of source.map for one element of an array source.
ElementCode(w, el) ==
    CASE el = "ref" -> <<RefGet, Collect>>
      [] el = "reactive" -> <<SourceItself, TraverseResult, Collect>>
      [] el = "getter" -> Body(w) \o <<Collect>>

RECURSIVE MapCode(_, _, _)
MapCode(w, elems, i) ==
    IF i > Len(elems) THEN <<>> ELSE ElementCode(w, elems[i]) \o MapCode(w, elems, i + 1)

\* The getter doWatch builds from the source, as the steps it performs.
getter(w) ==
    LET a == Program.watch[w]
        baseGetter ==
            CASE a.source = "ref" -> <<RefGet>>
              [] a.source = "reactive" -> <<SourceItself>>
              [] a.source = "array" -> MapCode(w, a.elems, 1)
              [] a.source = "getter" -> IF a.cb THEN Body(w) ELSE <<RunCleanup>> \o Body(w)
    IN  IF a.cb /\ Deep(w)
        THEN baseGetter \o <<IF a.source = "array" THEN TraverseArray ELSE TraverseResult>>
        ELSE baseGetter

\* The call of cleanup(): the function that onInvalidate registered last.
callCleanup(S, w) ==
    IF S.watch[w].cleanup # 0 THEN Result(S, <<RunFrame(InvOf(w), FALSE)>>, Undefined)
    ELSE Result(S, <<>>, Undefined)

\* onInvalidate(fn)
onInvalidate(S, w) ==
    [S EXCEPT !.watch[w].fns = @ + 1,
              !.watch[w].cleanup = S.watch[w].fns + 1,
              !.wlog[w] = Append(@, Ev("reg", S.watch[w].fns + 1, Undefined, Undefined))]

\* job, up to the call of fn inside runner().
job(S, w) ==
    IF ~S.active[w] THEN Result(S, <<>>, Undefined)
    ELSE IF HasCb(w)
         THEN LET r == reactiveEffect(S, w)
              IN  [r EXCEPT !.frames = <<JobFrame(w)>> \o @]
    ELSE reactiveEffect(S, w)

\* job calls cb(newValue, oldValue, onInvalidate).
jobCallCb(S, w, newValue) ==
    LET oldValue == IF S.watch[w].oldValue = INITIAL_WATCHER_VALUE THEN Undefined
                    ELSE S.watch[w].oldValue
    IN  [S |-> [S EXCEPT !.wlog[w] = Append(@, Ev("cb", 0, newValue, oldValue))],
         frames |-> <<RunFrame(CbOf(w), FALSE)>>, phase |-> "cb"]

\* A job that calls cb without calling cleanup() first.
jobCompareWithoutCleanup(S, w, newValue) ==
    IF Deep(w) \/ IsRefSource(w) \/ hasChanged(newValue, S.watch[w].oldValue)
    THEN jobCallCb(S, w, newValue)
    ELSE [S |-> S, frames |-> <<>>, phase |-> "done"]

\* job, from runner() having returned newValue to its call of cleanup or of cb.
jobCompare(S, w, newValue) ==
    IF Deep(w) \/ IsRefSource(w) \/ hasChanged(newValue, S.watch[w].oldValue)
    THEN IF S.watch[w].cleanup # 0
         THEN [S |-> S, frames |-> callCleanup(S, w).frames, phase |-> "cleanup"]
         ELSE jobCallCb(S, w, newValue)
    ELSE [S |-> S, frames |-> <<>>, phase |-> "done"]

\* job after cb has returned.
jobEnd(S, w, newValue) ==
    [S |-> [S EXCEPT !.watch[w].oldValue = newValue], frames |-> <<>>, phase |-> "done"]

\* The entries of the queues: the job of a watcher, or its runner.
Job(w) == [fn |-> "job", w |-> w]

Runner(w) == [fn |-> "runner", w |-> w]

queuePreFlushCb(S, j) == [S EXCEPT !.pending.pre = Append(@, j)]

queuePostRenderEffect(S, j) == [S EXCEPT !.pending.post = Append(@, j)]

\* The entries of a queue without duplicates, in the order of first insertion.
RECURSIVE Dedup(_)
Dedup(s) == IF s = <<>> THEN <<>> ELSE <<Head(s)>> \o Dedup(Without(Tail(s), Head(s)))

\* The next batch the scheduler flushes: the pre-flush queue, then the
\* post-render queue.
flushJobs(S) ==
    IF S.pending.pre # <<>>
    THEN [S |-> [S EXCEPT !.pending.pre = <<>>], jobs |-> Dedup(S.pending.pre)]
    ELSE IF S.pending.post # <<>>
         THEN [S |-> [S EXCEPT !.pending.post = <<>>], jobs |-> Dedup(S.pending.post)]
    ELSE [S |-> S, jobs |-> <<>>]

\* The scheduler calls a queued entry.
invoke(S, j) == IF j.fn = "job" THEN job(S, j.w) ELSE reactiveEffect(S, j.w)

\* doWatch(source, cb, options), up to the first call of a user function.
doWatch(S, w) ==
    LET S1 == IF IsArraySource(w)
              THEN [S EXCEPT !.watch[w] = [NoWatcher EXCEPT
                                              !.oldValue = ArrVal(S.arrays + 1, <<>>)],
                             !.arrays = @ + 1]
              ELSE [S EXCEPT !.watch[w] = NoWatcher]
        S2 == effect(S1, w).S
    IN  IF HasCb(w)
        THEN IF Immediate(w) THEN job(S2, w)
             ELSE LET r == reactiveEffect(S2, w)
                  IN  [r EXCEPT !.frames = <<SeedFrame(w)>> \o @]
        ELSE IF Scheduler(w) = "post"
             THEN Result(queuePostRenderEffect(S2, Runner(w)), <<>>, Undefined)
        ELSE reactiveEffect(S2, w)

\* doWatch after runner() has returned the first value.
doWatchSeed(S, w, value) ==
    [S EXCEPT !.watch[w].oldValue = value,
              !.wlog[w] = Append(@, Ev("seed", 0, value, Undefined))]

(***************************************************************************)
(* The program counter.                                                    *)
(***************************************************************************)
Top == stack[Len(stack)]

Quiescent == Len(stack) = 1 /\ ~exc

\* The code a run frame executes: an effect's raw function, or the setup of
\* the main program.
Code(f) ==
    IF f.e = "main" THEN Program.setup
    ELSE IF f.e \in Watchers THEN getter(f.e)
    ELSE Body(f.e)

Guarded(f, ins) ==
    \/ ins.when = "always"
    \/ ins.when = "truthy" /\ f.cond
    \/ ins.when = "falsy" /\ ~f.cond

\* The next instruction of the code whose condition holds; 0 at the end.
NextPc(f) ==
    LET ready == {i \in f.pc..Len(Code(f)) : Guarded(f, Code(f)[i])}
    IN  IF ready = {} THEN 0 ELSE CHOOSE i \in ready : \A j \in ready : i <= j

\* The instructions the program may execute now, each with its position.
Fetch ==
    IF exc \/ Top.k # "run" THEN {}
    ELSE IF NextPc(Top) # 0 THEN {<<NextPc(Top), Code(Top)[NextPc(Top)]>>}
    ELSE IF Top.e = "main" /\ Top.pc <= Len(Program.setup) + MaxOps
         THEN {<<Top.pc, Program.menu[j]>> : j \in 1..Len(Program.menu)}
    ELSE {}

\* The effect whose run the program is in: the innermost raw function that the
\* effect runtime is executing.
RECURSIVE OwnerOf(_)
OwnerOf(stk) ==
    IF stk = <<>> THEN NoEffect
    ELSE IF Last(stk).k = "run" /\ Last(stk).tracked THEN Last(stk).e
    ELSE OwnerOf(Front(stk))

Owner == OwnerOf(stack)

\* History: keys read by owner while tracking was enabled.
Logged(S, owner, on, keys) ==
    IF owner = NoEffect \/ ~on THEN S
    ELSE [S EXCEPT !.readLog[owner] = @ \cup keys]

\* History: the event of its watcher that entering function fn is.
EnterEvents(S, fn) ==
    IF fn \in Watchers THEN <<Ev("run", 0, Undefined, Undefined)>>
    ELSE IF fn \in {"inv1", "inv2"}
         THEN <<Ev("inv", S.watch[WatcherOf(fn)].cleanup, Undefined, Undefined)>>
    ELSE <<>>

\* History: the raw functions entered by pushing frames.
RECURSIVE Entered(_, _)
Entered(S, frames) ==
    IF frames = <<>> THEN S
    ELSE LET f == Head(frames)
             S1 == IF f.k # "run" THEN S
                   ELSE [S EXCEPT !.runs[f.e] = @ + 1,
                                  !.readLog[f.e] = IF f.tracked THEN {} ELSE @,
                                  !.wlog[WatcherOf(f.e)] = @ \o EnterEvents(S, f.e)]
         IN  Entered(S1, Tail(frames))

\* History: the stop handle of a watcher is called.
Noted(S, ins) ==
    IF ins.op = "stop" /\ ins.e \in Watchers
    THEN [S EXCEPT !.wlog[ins.e] = Append(@, Ev("stop", 0, Undefined, Undefined))]
    ELSE S

\* The value an instruction writes.
Operand(ins) == IF ins.v = AccPlusOne THEN PlusOne(Top.acc) ELSE ins.v

\* What the raw function of effect e returns when its last read gave acc.
ReturnValue(e, acc) ==
    CASE e \in Watchers /\ Program.watch[e].source \in {"ref", "reactive"} -> acc
      [] Program.ret[e] = "acc" -> acc
      [] Program.ret[e] = "twice" -> Twice(acc)
      [] Program.ret[e] = "plusOne" -> PlusOne(acc)
      [] OTHER -> Undefined

Before(ins) ==
    [prop |-> IF ins.t \in {"o", "arr"} THEN OwnProp(Cur, ins.t, ins.k) ELSE Absent,
     len |-> Len(arr.el),
     ref |-> ref,
     depsMap |-> IF ins.t \in Targets THEN targetMap[ins.t] ELSE <<>>,
     activeEffect |-> activeEffect,
     shouldTrack |-> shouldTrack,
     active |-> active,
     comp |-> comp,
     readLog |-> readLog,
     runs |-> runs]

\* The current frame executes instruction f[2], whose handler gave r; keys are
\* the <<target, key>> the instruction reads.
Apply(f, r, keys, isRead) ==
    LET ins == f[2]
        S1 == Entered(Logged(r.S, Owner, shouldTrack, keys), r.frames)
        top == [Top EXCEPT
                  !.pc = f[1] + 1,
                  !.acc = IF isRead /\ r.frames = <<>> THEN r.value ELSE @,
                  !.cond = IF ins.setc THEN Truthy(r.value) ELSE @,
                  !.out = IF ins.op = "collect" THEN Append(@, r.value) ELSE @]
    IN  /\ Commit(S1)
        /\ stack' = Front(stack) \o <<top>> \o r.frames
        /\ exc' = (r.threw /\ Len(stack) > 1)
        /\ last' = [ins |-> [ins EXCEPT !.v = Operand(ins)], by |-> Top.e,
                    before |-> Before(ins), type |-> r.type, effects |-> r.effects,
                    threw |-> r.threw, value |-> r.value]
        /\ lastMain' = IF Top.e = "main" THEN last' ELSE lastMain
        /\ UNCHANGED <<sc, Program>>

(***************************************************************************)
(* The operations a user function performs.                                *)
(***************************************************************************)
ProxyGet ==
    \E f \in Fetch :
        /\ f[2].op = "get"
        /\ Apply(f, get(Cur, f[2].t, f[2].k),
                 {<<f[2].t, f[2].k>>} \cup
                    IF isRef(ReflectGet(Cur, f[2].t, f[2].k))
                          /\ (~isArray(f[2].t) \/ ~isIntegerKey(f[2].k))
                    THEN {<<"r", "value">>} ELSE {},
                 TRUE)

ProxySet ==
    \E f \in Fetch :
        /\ f[2].op = "set"
        /\ Apply(f, set(Cur, f[2].t, f[2].k, Operand(f[2])), {}, FALSE)

ProxyDelete ==
    \E f \in Fetch :
        /\ f[2].op = "delete"
        /\ Apply(f, deleteProperty(Cur, f[2].t, f[2].k), {}, FALSE)

\* History: a user function calls pauseTracking or enableTracking.
Marked(S) ==
    [S EXCEPT !.marks = Append(@, [shouldTrack |-> S.shouldTrack,
                                   depth |-> Len(S.trackStack)])]

\* History: a user function calls resetTracking, which matches the last call
\* of pauseTracking or enableTracking not yet matched.
Matched(S) == [S EXCEPT !.marks = IF @ = <<>> THEN @ ELSE Front(@)]

\* A user function calls pauseTracking().
CallPauseTracking ==
    \E f \in Fetch :
        /\ f[2].op = "pauseTracking"
        /\ Apply(f, Result(pauseTracking(Marked(Cur)), <<>>, Undefined), {}, FALSE)

\* A user function calls enableTracking().
CallEnableTracking ==
    \E f \in Fetch :
        /\ f[2].op = "enableTracking"
        /\ Apply(f, Result(enableTracking(Marked(Cur)), <<>>, Undefined), {}, FALSE)

\* A user function calls resetTracking().
CallResetTracking ==
    \E f \in Fetch :
        /\ f[2].op = "resetTracking"
        /\ Apply(f, Result(resetTracking(Matched(Cur)), <<>>, Undefined), {}, FALSE)

\* A read through readonly(target) or shallowReadonly(target).
ReadonlyProxyGet ==
    \E f \in Fetch :
        /\ f[2].op \in {"readonlyGet", "shallowReadonlyGet"}
        /\ Apply(f, IF f[2].op = "readonlyGet" THEN readonlyGet(Cur, f[2].t, f[2].k)
                    ELSE shallowReadonlyGet(Cur, f[2].t, f[2].k),
                 IF f[2].op = "readonlyGet" /\ isRef(ReflectGet(Cur, f[2].t, f[2].k))
                       /\ (~isArray(f[2].t) \/ ~isIntegerKey(f[2].k))
                 THEN {<<"r", "value">>} ELSE {},
                 TRUE)

\* A write through readonly(target) or shallowReadonly(target).
ReadonlyProxySet ==
    \E f \in Fetch :
        /\ f[2].op \in {"readonlySet", "shallowReadonlySet"}
        /\ Apply(f, readonlySet(Cur, f[2].t, f[2].k, Operand(f[2])), {}, FALSE)

\* A delete through readonly(target) or shallowReadonly(target).
ReadonlyProxyDelete ==
    \E f \in Fetch :
        /\ f[2].op \in {"readonlyDelete", "shallowReadonlyDelete"}
        /\ Apply(f, readonlyDeleteProperty(Cur, f[2].t, f[2].k), {}, FALSE)

ProxyHas ==
    \E f \in Fetch :
        /\ f[2].op = "has"
        /\ Apply(f, has(Cur, f[2].t, f[2].k), {<<f[2].t, f[2].k>>}, TRUE)

ProxyOwnKeys ==
    \E f \in Fetch :
        /\ f[2].op = "ownKeys"
        /\ Apply(f, ownKeys(Cur, f[2].t), {<<f[2].t, ITERATE_KEY>>}, FALSE)

CreateEffect ==
    \E f \in Fetch :
        /\ f[2].op = "effect"
        /\ ~created[f[2].e]
        /\ Apply(f, effect(Cur, f[2].e), {}, FALSE)

\* A call of effect() on a function that has effects already: it makes a new
\* effect, the next of the pool (the step waits when the pool is used up).
CreateInnerEffect ==
    \E f \in Fetch :
        /\ f[2].op = "effectNew"
        /\ FreshInstances(Cur) # <<>>
        /\ Apply(<<f[1], [f[2] EXCEPT !.e = Head(FreshInstances(Cur))]>>,
                 effect(Cur, Head(FreshInstances(Cur))), {}, FALSE)

StopEffect ==
    \E f \in Fetch :
        /\ f[2].op = "stop"
        /\ created[f[2].e]
        /\ Apply(f, stop(Noted(Cur, f[2]), f[2].e), {}, FALSE)

CallEffect ==
    \E f \in Fetch :
        /\ f[2].op = "call"
        /\ created[f[2].e]
        /\ Apply(f, reactiveEffect(Cur, f[2].e), {}, FALSE)

RefRead ==
    \E f \in Fetch :
        /\ f[2].op = "refGet"
        /\ Apply(f, RefGetter(Cur), {<<"r", "value">>}, TRUE)

RefWrite ==
    \E f \in Fetch :
        /\ f[2].op = "refSet"
        /\ Apply(f, RefSetter(Cur, Operand(f[2])), {}, FALSE)

CreateComputed ==
    \E f \in Fetch :
        /\ f[2].op = "computed"
        /\ ~created[f[2].e]
        /\ Apply(f, computed(Cur, f[2].t), {}, FALSE)

\* A read of computed.value.  When the value is cached the read ends here;
\* when it is dirty the read ends in ComputedGetEnd.
ComputedRead ==
    \E f \in Fetch :
        /\ f[2].op = "computedGet"
        /\ created[EffectOf(f[2].t)]
        /\ Apply(f, computedGet(Cur, f[2].t),
                 IF comp[f[2].t].dirty THEN {} ELSE {<<f[2].t, "value">>}, TRUE)

\* The array grows only while its last index has a key (MaxIndex).
ArrayMethod ==
    \E f \in Fetch :
        /\ f[2].op \in {"push", "pop", "shift", "unshift", "splice"}
        /\ f[2].op \in {"push", "unshift"} => Len(arr.el) <= MaxIndex
        /\ Apply(f, arrayMethod(Cur, f[2].op, Operand(f[2])), {}, FALSE)

\* watch(source, cb, options) and watchEffect(fn, options).
CreateWatcher ==
    \E f \in Fetch :
        /\ f[2].op = "watch"
        /\ ~created[f[2].e]
        /\ Apply(f, doWatch(Cur, f[2].e), {}, FALSE)

\* A callback, or the function of watchEffect, calls onInvalidate(fn).
RegisterInvalidate ==
    \E f \in Fetch :
        /\ f[2].op = "onInvalidate"
        /\ Apply(f, Result(onInvalidate(Cur, WatcherOf(Top.e)), <<>>, Undefined), {}, FALSE)

\* The getter of a reactive source returns the source.
SourceRead ==
    \E f \in Fetch :
        /\ f[2].op = "source"
        /\ Apply(f, Result(Cur, <<>>, ProxyO), {}, TRUE)

\* The getter calls traverse on the value it has, or on the array it has built.
Traverse ==
    \E f \in Fetch :
        /\ f[2].op = "traverse"
        /\ LET value == IF f[2].k = "out" THEN ArrVal(0, Top.out) ELSE Top.acc
           IN  Apply(f, Result(traverse(Cur, value), <<>>, Top.acc),
                     TraverseReads(Cur, value), TRUE)

\* The callback of source.map returns the element's value.
MapElement ==
    \E f \in Fetch :
        /\ f[2].op = "collect"
        /\ Apply(f, Result(Cur, <<>>, Top.acc), {}, TRUE)

\* The getter of watchEffect calls cleanup() if it is set.
CallCleanup ==
    \E f \in Fetch :
        /\ f[2].op = "cleanup"
        /\ Apply(f, callCleanup(Cur, Top.e), {}, FALSE)

\* await nextTick(): the scheduler flushes the queues.
FlushQueues ==
    \E f \in Fetch :
        /\ f[2].op = "flush"
        /\ Apply(f, Result(Cur, <<FlushFrame>>, Undefined), {}, FALSE)

\* The function throws an error.
ThrowError ==
    \E f \in Fetch :
        /\ f[2].op = "throw"
        /\ Apply(f, [Result(Cur, <<>>, Undefined) EXCEPT !.threw = TRUE], {}, FALSE)

(***************************************************************************)
(* Returns and the loop of trigger.                                        *)
(***************************************************************************)
\* The raw function of an effect returns: the finally block of reactiveEffect
\* when the runtime called it, and the value goes to the caller.
EffectReturn ==
    /\ ~exc
    /\ Top.k = "run" /\ Top.e # "main" /\ NextPc(Top) = 0
    /\ LET rest == Front(stack)
           array == Top.e \in Watchers /\ IsArraySource(Top.e)
           value == IF array THEN ArrVal(arrays + 1, Top.out)
                    ELSE ReturnValue(Top.e, Top.acc)
           S == [Cur EXCEPT !.seen[Top.e] = Top.acc,
                            !.arrays = IF array THEN @ + 1 ELSE @]
       IN  /\ Commit(IF Top.tracked THEN finally(S) ELSE S)
           /\ stack' = IF Awaits(Last(rest))
                       THEN [rest EXCEPT ![Len(rest)].result = value]
                       ELSE rest
    /\ UNCHANGED <<sc, Program, exc, last, lastMain>>

\* run(effect) for the next effect of effects.forEach(run): the call of its
\* scheduler, or of the effect.
run(S, e) ==
    CASE Scheduler(e) = "computed" -> computedScheduler(S, ComputedOf(e))
      [] Scheduler(e) = "sync" -> job(S, e)
      [] Scheduler(e) = "pre" -> Result(queuePreFlushCb(S, Job(e)), <<>>, Undefined)
      [] Scheduler(e) = "post" -> Result(queuePostRenderEffect(S, Job(e)), <<>>, Undefined)
      [] OTHER -> reactiveEffect(S, e)

TriggerRun ==
    /\ ~exc
    /\ Top.k = "trigger"
    /\ LET r == run(Cur, Top.effects[Top.i])
           rest == IF Top.i = Len(Top.effects) THEN Front(stack)
                   ELSE Front(stack) \o <<[Top EXCEPT !.i = @ + 1,
                                                       !.invoked = Append(@, Top.effects[Top.i])]>>
       IN  /\ Commit(Entered(r.S, r.frames))
           /\ stack' = rest \o r.frames
           /\ exc' = r.threw
    /\ UNCHANGED <<sc, Program, last, lastMain>>

\* options.onStop() has returned to stop.
StopEnd ==
    /\ ~exc
    /\ Top.k = "stop"
    /\ Commit(stopEnd(Cur, Top.e))
    /\ stack' = Front(stack)
    /\ UNCHANGED <<sc, Program, exc, last, lastMain>>

\* The job of a watcher goes on after runner(), cleanup() or cb has returned.
JobStep ==
    /\ ~exc
    /\ Top.k = "job"
    /\ LET r == CASE Top.phase = "runner" -> jobCompare(Cur, Top.w, Top.result)
                  [] Top.phase = "cleanup" -> jobCallCb(Cur, Top.w, Top.result)
                  [] Top.phase = "cb" -> jobEnd(Cur, Top.w, Top.result)
       IN  /\ Commit(Entered(r.S, r.frames))
           /\ stack' = IF r.phase = "done" THEN Front(stack)
                       ELSE Front(stack) \o <<[Top EXCEPT !.phase = r.phase]>> \o r.frames
    /\ UNCHANGED <<sc, Program, exc, last, lastMain>>

\* runner() has returned to doWatch, which assigns oldValue.
WatchSeed ==
    /\ ~exc
    /\ Top.k = "seed"
    /\ Commit(doWatchSeed(Cur, Top.w, Top.result))
    /\ stack' = Front(stack)
    /\ UNCHANGED <<sc, Program, exc, last, lastMain>>

\* The scheduler calls the next entry of the batch it is flushing, or takes
\* the next batch.
FlushRun ==
    /\ ~exc
    /\ Top.k = "flush"
    /\ IF Top.i <= Len(Top.jobs)
       THEN LET r == invoke(Cur, Top.jobs[Top.i])
            IN  /\ Commit(Entered(r.S, r.frames))
                /\ stack' = Front(stack) \o <<[Top EXCEPT !.i = @ + 1]>> \o r.frames
       ELSE LET b == flushJobs(Cur)
            IN  /\ Commit(b.S)
                /\ stack' = IF b.jobs = <<>> THEN Front(stack)
                            ELSE Front(stack) \o <<[Top EXCEPT !.jobs = b.jobs, !.i = 1]>>
    /\ UNCHANGED <<sc, Program, exc, last, lastMain>>

\* this.effect() has returned to the getter of a computed.
ComputedGetEnd ==
    /\ ~exc
    /\ Top.k = "cget"
    /\ LET r == computedGetEnd(Cur, Top.c, Top.result)
           rest == Front(stack)
       IN  /\ Commit(Logged(r.S, OwnerOf(rest), shouldTrack, {<<Top.c, "value">>}))
           /\ stack' = [rest EXCEPT ![Len(rest)].acc = r.value]
    /\ UNCHANGED <<sc, Program, exc, last, lastMain>>

\* The native array method makes its next property access.
NativeAccess ==
    /\ ~exc
    /\ Top.k = "native" /\ Top.i <= Len(Top.plan)
    /\ LET r == nativeAccess(Cur, Top.plan[Top.i])
       IN  /\ Commit(Entered(r.S, r.frames))
           /\ stack' = Front(stack) \o <<[Top EXCEPT !.i = @ + 1]>> \o r.frames
           /\ exc' = r.threw
    /\ UNCHANGED <<sc, Program, last, lastMain>>

\* The native array method has returned.
ArrayMethodEnd ==
    /\ ~exc
    /\ Top.k = "native" /\ Top.i > Len(Top.plan)
    /\ Commit(arrayMethodEnd(Cur))
    /\ stack' = Front(stack)
    /\ UNCHANGED <<sc, Program, exc, last, lastMain>>

\* An exception leaves the innermost frame; an effect's frame runs its finally
\* block.  The main program catches it: its operation has thrown.
Unwind ==
    /\ exc
    /\ Commit(IF Top.k = "run" /\ Top.tracked THEN finally(Cur) ELSE Cur)
    /\ stack' = Front(stack)
    /\ exc' = (Len(stack) > 2)
    /\ lastMain' = IF Len(stack) > 2 THEN lastMain ELSE [lastMain EXCEPT !.threw = TRUE]
    /\ UNCHANGED <<sc, Program, last>>

NoLast ==
    [ins |-> Ins("none", "", "", Undefined, NoEffect), by |-> "main",
     before |-> [prop |-> Absent, len |-> 0, ref |-> PlainRef, depsMap |-> <<>>,
                 activeEffect |-> NoEffect, shouldTrack |-> TRUE,
                 active |-> [e \in Effects |-> FALSE],
                 comp |-> [c \in Computeds |-> [dirty |-> TRUE, value |-> Undefined]],
                 readLog |-> [e \in Functions |-> {}],
                 runs |-> [e \in Functions |-> 0]],
     type |-> "none", effects |-> <<>>, threw |-> FALSE, value |-> Undefined]

Init ==
    /\ sc \in Programs
    /\ Program = ProgramOf(sc)
    /\ targetMap = [t \in Targets |-> <<>>]
    /\ deps = [e \in Effects |-> <<>>]
    /\ active = [e \in Effects |-> FALSE]
    /\ created = [e \in Effects |-> FALSE]
    /\ effectStack = <<>>
    /\ activeEffect = NoEffect
    /\ shouldTrack = TRUE
    /\ trackStack = <<>>
    /\ obj = Program.obj
    /\ arr = Program.arr
    /\ ref = Program.ref
    /\ comp = [c \in Computeds |-> [dirty |-> TRUE, value |-> Undefined]]
    /\ stack = <<RunFrame("main", FALSE)>>
    /\ exc = FALSE
    /\ runs = [e \in Functions |-> 0]
    /\ readLog = [e \in Functions |-> {}]
    /\ onStopCalls = [e \in Effects |-> 0]
    /\ seen = [e \in Functions |-> Undefined]
    /\ watch = [w \in Watchers |-> NoWatcher]
    /\ pending = [pre |-> <<>>, post |-> <<>>]
    /\ arrays = 0
    /\ wlog = [w \in Watchers |-> <<>>]
    /\ marks = <<>>
    /\ last = NoLast
    /\ lastMain = NoLast

Next ==
    \/ ProxyGet
    \/ ProxySet
    \/ ProxyDelete
    \/ CallPauseTracking
    \/ CallEnableTracking
    \/ CallResetTracking
    \/ ReadonlyProxyGet
    \/ ReadonlyProxySet
    \/ ReadonlyProxyDelete
    \/ ProxyHas
    \/ ProxyOwnKeys
    \/ CreateEffect
    \/ CreateInnerEffect
    \/ StopEffect
    \/ CallEffect
    \/ RefRead
    \/ RefWrite
    \/ CreateComputed
    \/ ComputedRead
    \/ ArrayMethod
    \/ CreateWatcher
    \/ RegisterInvalidate
    \/ SourceRead
    \/ Traverse
    \/ MapElement
    \/ CallCleanup
    \/ FlushQueues
    \/ ThrowError
    \/ EffectReturn
    \/ TriggerRun
    \/ StopEnd
    \/ JobStep
    \/ WatchSeed
    \/ FlushRun
    \/ ComputedGetEnd
    \/ NativeAccess
    \/ ArrayMethodEnd
    \/ Unwind

Spec == Init /\ [][Next]_vars

(***************************************************************************)
(* Properties.                                                             *)
(***************************************************************************)
\* The <<target, key>> pairs whose Dep contains effect e.
DepsOf(e) ==
    UNION {{<<t, targetMap[t][i].key>> :
                i \in {j \in 1..Len(targetMap[t]) : InSeq(e, targetMap[t][j].dep)}} :
           t \in Targets}

\* The <<target, key>> pairs of e.deps.
OwnDeps(e) == {deps[e][i] : i \in 1..Len(deps[e])}

\* stop(e) has been called and has returned.
Stopped(e) == created[e] /\ ~active[e]

\* C1: in every state after stop(E) has returned, no Dep contains E and E.deps
\* is empty, wherever stop(E) was called from.
C1_StoppedHasNoDeps ==
    \A e \in Effects : Stopped(e) => DepsOf(e) = {} /\ OwnDeps(e) = {}

\* The effects a write handed to effects.forEach(run).
Ran(l) == {l.effects[i] : i \in 1..Len(l.effects)}

\* The last operation was the write proxy.k = v to a plain property of o.
PlainWrite(l) ==
    /\ l.ins.op = "set" /\ l.ins.t = "o"
    /\ ~isRef(l.before.prop)

\* Effect e is active and stop(e) has not been called (a call of stop(e) that
\* is still in options.onStop has unsubscribed e and not yet marked it).
Live(e) == active[e] /\ onStopCalls[e] = 0

\* C2: an active effect whose run has completed is in exactly the Deps of the
\* keys its function read in its latest run while tracking was enabled, and a
\* write to a key runs only active effects that read the key in their latest run
\* (or that enumerated the keys, when the write adds the key).
C2_DepsAreLatestReads ==
    /\ \A e \in Effects :
          Live(e) /\ ~InSeq(e, effectStack) => DepsOf(e) = readLog[e]
    /\ PlainWrite(last) =>
          \A e \in Ran(last) :
              last.before.active[e] =>
                  \/ <<"o", last.ins.k>> \in last.before.readLog[e]
                  \/ last.type = "add" /\ <<"o", ITERATE_KEY>> \in last.before.readLog[e]

\* C2 witness: E has run again and no longer reads o.a, and the main program's
\* write o.a = 2 has run no effect.
C2_Witness ==
    /\ sc = "branch" /\ Quiescent
    /\ runs["E"] >= 2 /\ active["E"]
    /\ readLog["E"] = {<<"o", "ok">>, <<"o", "b">>}
    /\ lastMain.ins.op = "set" /\ lastMain.ins.k = "a"
    /\ lastMain.type = "set" /\ lastMain.effects = <<>>

\* The executions of e's raw function that are in progress.
Running(e) == {i \in 1..Len(stack) : stack[i].k = "run" /\ stack[i].e = e}

\* The main program's last operation is complete and was a write that called
\* trigger with the given type.
MainWrote(type) == Quiescent /\ lastMain.type = type

\* C3: no second execution of the function of an effect with allowRecurse =
\* false starts while one is in progress, and the self-incrementing effect F
\* (o.n = o.n + 1) has run exactly once for a write of o.n by the main program.
C3_NoReentry ==
    /\ \A e \in Effects : ~AllowRecurse(e) => Cardinality(Running(e)) <= 1
    /\ sc = "branch" /\ MainWrote("set") /\ lastMain.ins.k = "n"
          => runs["F"] = lastMain.before.runs["F"] + 1

\* Effect e is active and no run of it is in progress.
Settled(e) == active[e] /\ ~InSeq(e, effectStack) /\ runs[e] > 0

\* C4: in the programs whose effect O runs the effect I (I reads o.b, O then
\* reads o.a), the reads of I subscribe only I and the later read of O
\* subscribes only O; a write of o.a re-runs O, and a write of o.b runs I
\* without re-running O.
C4_NestedSubscriptions ==
    sc \in {"nested", "nestedPush"} =>
        /\ Settled("O") => DepsOf("O") = {<<"o", "a">>}
        /\ Settled("I") => DepsOf("I") = {<<"o", "b">>}
        /\ MainWrote("set") /\ lastMain.ins.k = "a"
              => runs["O"] = lastMain.before.runs["O"] + 1
        /\ MainWrote("set") /\ lastMain.ins.k = "b"
              => /\ runs["I"] = lastMain.before.runs["I"] + 1
                 /\ runs["O"] = lastMain.before.runs["O"]

\* The number of times the getter of computed c has been invoked.
GetterRuns(c) == runs[EffectOf(c)]

\* This step is the operation op on target t, described by last'.  (When Fetch
\* is not empty the program is about to execute an instruction, and no other
\* action is enabled.)
Executes(op, t) == Fetch # {} /\ last'.ins.op = op /\ last'.ins.t = t

\* What C5 says of each state: a computed whose getter was never invoked is
\* dirty, and when a read of c.value by the main program has returned, the
\* cache is clean and holds the value the read returned.
C5_State ==
    \A c \in Computeds :
        /\ GetterRuns(c) = 0 => comp[c].dirty
        /\ Quiescent /\ lastMain.ins.op = "computedGet" /\ lastMain.ins.t = c
              => ~comp[c].dirty /\ stack[1].acc = comp[c].value

\* What C5 says of each step: computed(getter) does not invoke the getter; a
\* read of c.value invokes it once if _dirty is true and not at all if _dirty is
\* false, and then the read returns the cached value and leaves the cache as it
\* is; the getter is invoked by nothing else, and _dirty becomes true only when
\* a trigger runs the scheduler of the computed's inner effect.
C5_Step ==
    \A c \in Computeds :
        /\ Executes("computed", c) => GetterRuns(c)' = 0 /\ comp'[c].dirty
        /\ Executes("computedGet", c) /\ comp[c].dirty
              => GetterRuns(c)' = GetterRuns(c) + 1
        /\ Executes("computedGet", c) /\ ~comp[c].dirty
              => /\ GetterRuns(c)' = GetterRuns(c)
                 /\ last'.value = comp[c].value
                 /\ comp'[c] = comp[c]
        /\ GetterRuns(c)' # GetterRuns(c) => Executes("computedGet", c)
        /\ ~comp[c].dirty /\ comp'[c].dirty
              => Top.k = "trigger" /\ Top.effects[Top.i] = EffectOf(c)

\* C5: computed(getter) does not invoke getter; a read of value invokes getter
\* if and only if _dirty is true at that moment; consecutive reads with no
\* change to a source in between invoke getter once in total and return the
\* same cached value.
C5_LazyCached == []C5_State /\ [][C5_Step]_vars

\* C5 witness: the main program has read c1.value twice in a row, the second
\* read found the cache clean, and the getter has run once.
C5_Witness ==
    /\ sc = "computed" /\ Quiescent
    /\ lastMain.ins.op = "computedGet" /\ lastMain.ins.t = "c1"
    /\ ~lastMain.before.comp["c1"].dirty
    /\ lastMain.value = Num(2) /\ stack[1].acc = Num(2)
    /\ GetterRuns("c1") = 1

\* Effect e existed and was active when the main program's last operation began.
WasActive(e) == lastMain.before.active[e]

RanOnce(e) == runs[e] = lastMain.before.runs[e] + 1

\* C6: in program "computed" (c1 = computed(() => o.n * 2), c2 = computed(() =>
\* c1.value + 1), G reads only c1.value, E reads only c2.value) a write that
\* changes o.n re-runs G once and E once, each re-run sees the getter's value
\* for the new o.n, and so does a later read by the main program.
C6_OneRerunFreshValue ==
    sc = "computed" /\ Quiescent =>
        /\ lastMain.type = "set" /\ lastMain.ins.k = "n" /\ WasActive("G")
              => RanOnce("G") /\ seen["G"] = Twice(obj["n"])
        /\ lastMain.type = "set" /\ lastMain.ins.k = "n" /\ WasActive("E")
              => RanOnce("E") /\ seen["E"] = PlusOne(Twice(obj["n"]))
        /\ lastMain.ins.op = "computedGet" /\ lastMain.ins.t = "c1"
              => stack[1].acc = Twice(obj["n"])
        /\ lastMain.ins.op = "computedGet" /\ lastMain.ins.t = "c2"
              => stack[1].acc = PlusOne(Twice(obj["n"]))

\* C6 witness: with E subscribed through the chain c2 -> c1 -> o.n, the main
\* program has written o.n = 3 and E has run once more and seen 7.
C6_Witness ==
    /\ sc = "computed" /\ Quiescent
    /\ lastMain.type = "set" /\ lastMain.ins.k = "n" /\ WasActive("E")
    /\ obj["n"] = Num(3) /\ seen["E"] = Num(7) /\ runs["E"] = 2

\* The last operation was the assignment r.value = v.
AssignedRef == last.ins.op = "refSet"

\* C7: r.value = v calls trigger exactly when toRaw(v) differs (NaN equal to
\* NaN) from the raw form of the value r stored, and otherwise leaves r as it
\* was.
C7_RefTriggersIffRawChanged ==
    AssignedRef =>
        /\ last.type = "set"
              <=> hasChanged(toRaw(last.ins.v), toRaw(last.before.ref.rawValue))
        /\ last.type # "set" => last.before.ref = ref

\* The last operation was arr.length = n by the main program, n not the length.
SetLengthTo(l) ==
    /\ l.ins.op = "set" /\ l.ins.t = "arr" /\ l.ins.k = "length"
    /\ l.by = "main" /\ l.ins.v # Num(l.before.len)

\* The effects that were registered under "length" or an integer key >= n.
LengthOrRemovedIndex(l) ==
    {e \in Effects :
        \E i \in 1..Len(l.before.depsMap) :
            /\ InSeq(e, l.before.depsMap[i].dep)
            /\ \/ l.before.depsMap[i].key = "length"
               \/ /\ isIntegerKey(l.before.depsMap[i].key)
                  /\ KeyIndex(l.before.depsMap[i].key) >= l.ins.v.n}

\* C8: arr.length = n raises no error, whatever keys are tracked on the array,
\* and runs exactly the effects registered under "length" and under integer
\* keys >= n.
C8_LengthTriggersRemovedIndices ==
    SetLengthTo(last) => ~last.threw /\ Ran(last) = LengthOrRemovedIndex(last)

\* This step is the write proxy[k] = v, for k whose old value is not a ref.
WritesPlain == Fetch # {} /\ last'.ins.op = "set" /\ ~isRef(last'.before.prop)

\* k was present: for an array and an integer k, Number(k) < length.
WasPresent(l) ==
    IF isArray(l.ins.t) /\ isIntegerKey(l.ins.k) THEN KeyIndex(l.ins.k) < l.before.len
    ELSE l.before.prop # Absent

\* target[k] before the write.
OldValue(l) == IF l.before.prop = Absent THEN Undefined ELSE l.before.prop

\* What C9 says of each write: the value is set on the target, and trigger is
\* called with ADD if k was absent, with SET if k was present and the value
\* differs from the old one, and not at all if it equals the old one.
C9_Step ==
    WritesPlain =>
        /\ OwnProp([obj |-> obj', arr |-> arr'], last'.ins.t, last'.ins.k)
              = toRaw(last'.ins.v)
        /\ last'.type =
              IF ~WasPresent(last') THEN "add"
              ELSE IF hasChanged(toRaw(last'.ins.v), OldValue(last')) THEN "set"
              ELSE "none"

\* A write by the main program to a key of o that the active effect e (one
\* with no scheduler) read in its latest run, when it has returned without an
\* error, has re-run e if it triggered ADD or SET, and has not if it triggered
\* nothing.
C9_State ==
    \A e \in Effects :
        /\ Quiescent /\ PlainWrite(lastMain) /\ ~lastMain.threw /\ WasActive(e)
        /\ Scheduler(e) = "none"
        /\ <<"o", lastMain.ins.k>> \in lastMain.before.readLog[e]
        => IF lastMain.type = "none" THEN runs[e] = lastMain.before.runs[e]
           ELSE runs[e] > lastMain.before.runs[e]

\* C9: proxy[k] = v sets the value on the target and triggers ADD if k was
\* absent, SET if k was present and v differs from the old value (NaN equal to
\* NaN), nothing if v equals it; an effect that read o.a re-runs after o.a = 2
\* and not after a second o.a = 2.
C9_SetSemantics == []C9_State /\ [][C9_Step]_vars

\* C9 witness: E read o.a, the main program wrote o.a = 2 twice, and the second
\* write triggered nothing and did not re-run E.
C9_Witness ==
    /\ sc = "branch" /\ Quiescent
    /\ PlainWrite(lastMain) /\ lastMain.ins.k = "a" /\ lastMain.ins.v = Num(2)
    /\ lastMain.before.prop = Num(2) /\ lastMain.type = "none"
    /\ <<"o", "a">> \in readLog["E"] /\ runs["E"] = 2

\* The programs whose effects call push, pop, shift, unshift or splice.
MutatorPrograms == {"push", "mutators", "nestedPush"}

\* The keys of the array that e is subscribed to.
ArrayDepsOf(e) == {d \in DepsOf(e) : d[1] = "arr"}

\* The effects of program "push" whose function only pushes.
Pushers == {"E", "F"}

\* The effects of program "mutators" whose function only calls shift, unshift,
\* splice or pop; the main program creates each and never calls it.
Callers == {"E", "F", "G", "H"}

\* C10: an effect that calls push, pop, shift, unshift or splice is subscribed
\* to no key of the array but those its function reads itself, so not to
\* "length" or an index the native method reads; its function is not entered
\* while it runs, and its own call runs it no second time; two effects that
\* push to the same array do not run each other.
C10_MutatorsDoNotSubscribe ==
    sc \in MutatorPrograms =>
        /\ \A e \in Effects :
              /\ ArrayDepsOf(e) \subseteq readLog[e]
              /\ Cardinality(Running(e)) <= 1
        /\ sc = "push" =>
              /\ \A e \in Pushers : ArrayDepsOf(e) = {}
              /\ \A e \in Pushers : \A i \in 1..Len(stack) :
                    stack[i].k = "trigger" => ~InSeq(e, stack[i].effects)
              /\ Quiescent /\ lastMain.ins.op = "call" /\ lastMain.ins.e = "E"
                    => /\ runs["E"] = lastMain.before.runs["E"] + 1
                       /\ runs["F"] = lastMain.before.runs["F"]
        /\ sc = "mutators" =>
              \A e \in Callers : ArrayDepsOf(e) = {} /\ runs[e] <= 1

\* C10 witness: E and F have each pushed once, the main program has called E
\* again, and E has run twice and F once.
C10_Witness ==
    /\ sc = "push" /\ Quiescent
    /\ lastMain.ins.op = "call" /\ lastMain.ins.e = "E"
    /\ runs["E"] = 2 /\ runs["F"] = 1
    /\ Len(arr.el) >= 4 /\ arr.el[Len(arr.el)] = Num(5)

\* An exception is leaving the invocation of an effect by the runtime: the next
\* step runs the finally block of reactiveEffect.
ThrowLeaves == exc /\ Top.k = "run" /\ Top.tracked

\* C11: when an exception has left the invocation of an effect, the effect
\* stack, the current effect, shouldTrack and the depth of the tracking-state
\* stack are what they were just before the invocation, at every nesting depth.
C11_ThrowRestoresRuntime ==
    [][ThrowLeaves =>
          /\ effectStack' = Top.saved.effectStack
          /\ activeEffect' = Top.saved.activeEffect
          /\ shouldTrack' = Top.saved.shouldTrack
          /\ Len(trackStack') = Top.saved.depth]_vars

\* The positions of the events of kind ev in the history of watcher w: "run"
\* (its source function is entered), "seed" (doWatch takes the value new of the
\* source at creation), "cb" (its callback is invoked with new and old), "reg"
\* (onInvalidate registers function id), "inv" (function id is executed) and
\* "stop" (its stop handle is called).
At(w, ev) == {i \in 1..Len(wlog[w]) : wlog[w][i].ev = ev}

\* The function a watcher invokes on a change: its callback, or the function
\* given to watchEffect.
Invocations(w) == IF HasCb(w) THEN At(w, "cb") ELSE At(w, "run")

\* C12: after the stop handle of a watcher has been called, its callback (for
\* watchEffect, its function) is never invoked again.
C12_NoCallbackAfterStop ==
    \A w \in Watchers :
        \A i \in At(w, "stop") : \A j \in Invocations(w) : j < i

\* The invocation of w's callback at position j is the first one.
FirstCb(w, j) == \A i \in At(w, "cb") : j <= i

\* Positions i < j are two consecutive invocations of w's callback.
NextCb(w, i, j) == i < j /\ \A m \in At(w, "cb") : m <= i \/ j <= m

\* C13: the first invocation of a watch callback receives undefined as
\* oldValue when immediate is set and the value taken at creation when it is
\* not; every later invocation receives the newValue of the previous one.
C13_OldValueChain ==
    \A w \in Watchers :
        \A j \in At(w, "cb") :
            /\ FirstCb(w, j) /\ Immediate(w) => wlog[w][j].old = Undefined
            /\ FirstCb(w, j) /\ ~Immediate(w) =>
                  \E i \in At(w, "seed") : i < j /\ wlog[w][j].old = wlog[w][i].new
            /\ \A i \in At(w, "cb") :
                  NextCb(w, i, j) => wlog[w][j].old = wlog[w][i].new

\* The job of a watcher with a callback has its newValue and decides.
JobDecides == ~exc /\ Top.k = "job" /\ Top.phase = "runner"

\* newValue differs from oldValue under NaN-aware identity, element by element
\* for the arrays of an array source.
Differs(newValue, oldValue) ==
    IF newValue.t = "array" /\ oldValue.t = "array"
    THEN \/ Len(newValue.el) # Len(oldValue.el)
         \/ \E i \in 1..Len(newValue.el) : hasChanged(newValue.el[i], oldValue.el[i])
    ELSE hasChanged(newValue, oldValue)

\* The job goes on to its callback (after the invalidation function, if any).
InvokesCb ==
    /\ Len(stack') > Len(stack)
    /\ stack'[Len(stack)].k = "job"
    /\ stack'[Len(stack)].phase \in {"cleanup", "cb"}

\* C14: a job with a callback invokes it if and only if deep is in force, the
\* source is a ref, or newValue differs from oldValue (element by element for
\* an array source).
C14_CallbackIffChanged ==
    [][JobDecides =>
          (InvokesCb <=> \/ Deep(Top.w)
                         \/ IsRefSource(Top.w)
                         \/ Differs(Top.result, watch[Top.w].oldValue))]_vars

\* The function that position i of w's history registers is executed at a
\* position after i and up to m.
ExecutedWithin(w, i, m) ==
    \E x \in At(w, "inv") : wlog[w][x].id = wlog[w][i].id /\ i < x /\ x <= m

\* The getter of the watchEffect w has been entered at position j and has not
\* yet made its call of cleanup(), which precedes the call of the function.
NotYetBegun(w, j) ==
    /\ ~HasCb(w) /\ j = Len(wlog[w])
    /\ Top.k = "run" /\ Top.e = w /\ Top.pc = 1

\* The position by which the function registered before invocation j must
\* have been executed: before the callback is invoked, or by the getter of a
\* watchEffect before it calls the function.
Deadline(w, j) == IF HasCb(w) THEN j ELSE j + 1

\* No invocation of w's function lies between positions i and s.
NoInvocationBetween(w, i, s) == \A j \in Invocations(w) : j < i \/ s < j

\* C15 as stated: every function registered through onInvalidate is executed
\* before the next invocation begins, and when the stop handle is called if
\* there was no later invocation.
C15_EveryRegisteredRuns ==
    \A w \in Watchers :
        \A i \in At(w, "reg") :
            /\ \A j \in Invocations(w) :
                  i < j /\ ~NotYetBegun(w, j) => ExecutedWithin(w, i, Deadline(w, j))
            /\ \A s \in At(w, "stop") :
                  i < s /\ NoInvocationBetween(w, i, s) => ExecutedWithin(w, i, s + 1)

\* Position i is the last registration before position j, made before any
\* call of the stop handle.
LastRegistration(w, i, j) ==
    /\ i < j
    /\ \A x \in At(w, "reg") : x <= i \/ j < x
    /\ \A s \in At(w, "stop") : i < s

\* C15 amended: the function registered last through onInvalidate, while the
\* watcher had not been stopped, is executed before the next invocation
\* begins, and when the stop handle is called if there was no later invocation.
C15_LastRegisteredRuns ==
    \A w \in Watchers :
        \A i \in At(w, "reg") :
            /\ \A j \in Invocations(w) :
                  LastRegistration(w, i, j) /\ ~NotYetBegun(w, j)
                      => ExecutedWithin(w, i, Deadline(w, j))
            /\ \A s \in At(w, "stop") :
                  LastRegistration(w, i, s) /\ NoInvocationBetween(w, i, s)
                      => ExecutedWithin(w, i, s + 1)

\* C15 witness: the callback of w1 has registered two functions in one
\* invocation, the second has been executed and the callback invoked again;
\* and the function of w2 has registered two, and the second was executed
\* when the stop handle of w2 was called.
C15_Witness ==
    /\ sc = "watchTwice"
    /\ \E i \in At("w1", "reg") : \E j \in At("w1", "cb") :
          /\ i + 1 \in At("w1", "reg") /\ i + 1 < j
          /\ NoInvocationBetween("w1", i + 1, j - 1)
          /\ ExecutedWithin("w1", i + 1, j) /\ ~ExecutedWithin("w1", i, j)
    /\ \E i \in At("w2", "reg") : \E s \in At("w2", "stop") :
          LastRegistration("w2", i, s) /\ ExecutedWithin("w2", i, s + 1)

\* The step executes an instruction whose operation is one of ops.
Does(ops) == Fetch # {} /\ last'.ins.op \in ops

ReadonlyWrites ==
    {"readonlySet", "shallowReadonlySet", "readonlyDelete", "shallowReadonlyDelete"}

ReadonlyReads == {"readonlyGet", "shallowReadonlyGet"}

\* What C16 says of a set or a delete through a readonly or shallow-readonly
\* proxy: it reports success, changes no property of a target and runs no
\* effect.
C16_Write ==
    Does(ReadonlyWrites) =>
        /\ last'.value = True /\ ~last'.threw
        /\ obj' = obj /\ arr' = arr /\ ref' = ref
        /\ runs' = runs /\ Len(stack') = Len(stack) /\ pending' = pending

\* C16 as stated: and a get through such a proxy inside a running effect adds
\* the effect to no Dep.
C16_ReadonlyIsInert ==
    [][/\ C16_Write
       /\ Does(ReadonlyReads) /\ activeEffect # NoEffect =>
             targetMap' = targetMap /\ deps' = deps]_vars

\* The get through the proxy finds a ref in the property and unwraps it.
Unwraps(ins) ==
    /\ ins.op = "readonlyGet"
    /\ isRef(ReflectGet(Cur, ins.t, ins.k))
    /\ ~isArray(ins.t) \/ ~isIntegerKey(ins.k)

\* C16 amended: a get through such a proxy inside a running effect adds the
\* effect to no Dep of the proxy's target, and to no Dep at all unless the
\* proxy is readonly (not shallow) and the property holds a ref, whose value the
\* get reads: then the effect is added to the Dep of the ref's value only.
C16_ReadonlyTracksOnlyRefs ==
    [][/\ C16_Write
       /\ Does(ReadonlyReads) /\ activeEffect # NoEffect =>
             /\ \A t \in DOMAIN targetMap : t # "r" => targetMap'[t] = targetMap[t]
             /\ ~Unwraps(last'.ins) => targetMap' = targetMap /\ deps' = deps
             /\ \A e \in Effects : e # activeEffect => deps'[e] = deps[e]]_vars

\* C16 witness: E and G have read o.a and the ref in o.r through readonly(o),
\* E is in no Dep and G is in the Dep of the ref only; the main program has
\* written a property that F reads through readonly or shallowReadonly proxy,
\* the write reported success, o.a is unchanged and F has not run again.
C16_Witness ==
    /\ sc = "readonly" /\ Quiescent
    /\ runs["E"] = 1 /\ DepsOf("E") = {}
    /\ runs["G"] = 1 /\ DepsOf("G") = {<<"r", "value">>}
    /\ lastMain.ins.op \in {"readonlySet", "shallowReadonlySet"} /\ lastMain.ins.k = "a"
    /\ lastMain.value = True /\ obj["a"] = Num(1)
    /\ <<"o", "a">> \in DepsOf("F") /\ runs["F"] = 1

\* What C17 says of each state: options.onStop of an effect has been invoked
\* at most once, once when stop(e) has returned, and whenever it is entered the
\* effect is in no Dep.
C17_State ==
    /\ \A e \in Effects :
          /\ onStopCalls[e] <= 1
          /\ Stopped(e) /\ HasOnStop(Cur, e) => onStopCalls[e] = 1
    /\ \A i \in 1..(Len(stack) - 1) :
          stack[i].k = "stop" /\ stack[i + 1].k = "run" /\ stack[i + 1].pc = 1
              => DepsOf(stack[i].e) = {} /\ OwnDeps(stack[i].e) = {}

\* What C17 says of a step: stop(e) on an inactive effect changes no state.
C17_Step ==
    Does({"stop"}) /\ ~active[last'.ins.e] =>
        /\ targetMap' = targetMap /\ deps' = deps /\ active' = active
        /\ onStopCalls' = onStopCalls /\ runs' = runs
        /\ effectStack' = effectStack /\ activeEffect' = activeEffect
        /\ shouldTrack' = shouldTrack /\ trackStack' = trackStack
        /\ obj' = obj /\ arr' = arr /\ ref' = ref /\ comp' = comp
        /\ Len(stack') = Len(stack)

\* C17: stop is idempotent, and across any number of calls of stop(E)
\* options.onStop is invoked exactly once, after E has left its Deps.
C17_StopIdempotent == []C17_State /\ [][C17_Step]_vars

\* The step invokes effect e, which is stopped.
InvokesStopped(e) == Does({"call"}) /\ last'.ins.e = e /\ created[e] /\ ~active[e]

\* An invocation of the stopped effect e is in progress: its raw function is
\* running, called outside the effect runtime.
InvocationOfStopped(e) ==
    \E i \in 1..Len(stack) : stack[i].k = "run" /\ stack[i].e = e /\ ~stack[i].tracked

\* C18: invoking a stopped effect without a scheduler calls the raw function
\* once, does not push the effect on the effect stack and changes neither the
\* tracking state nor any Dep, and nothing subscribes the effect while the
\* raw function runs; with a scheduler the invocation returns undefined and
\* the raw function is not called.
C18_StoppedEffectInvoked ==
    [][\A e \in Effects :
          /\ InvokesStopped(e) /\ Scheduler(e) = "none" =>
                /\ runs'[e] = runs[e] + 1
                /\ Len(stack') = Len(stack) + 1
                /\ stack'[Len(stack')] = RunFrame(e, FALSE)
                /\ effectStack' = effectStack /\ activeEffect' = activeEffect
                /\ shouldTrack' = shouldTrack /\ trackStack' = trackStack
                /\ targetMap' = targetMap /\ deps' = deps
          /\ InvokesStopped(e) /\ Scheduler(e) # "none" =>
                /\ runs' = runs /\ Len(stack') = Len(stack)
                /\ last'.value = Undefined
                /\ effectStack' = effectStack /\ targetMap' = targetMap
          /\ InvocationOfStopped(e) => deps'[e] = deps[e]]_vars

\* C19: a call of resetTracking by a user function gives shouldTrack the value
\* it had just before the call of pauseTracking or enableTracking that it
\* matches and trackStack the depth it had then, across the matched calls and
\* the effect runs made in between; a resetTracking on an empty stack sets
\* shouldTrack to true.
C19_TrackingNests ==
    [][Does({"resetTracking"}) =>
          /\ marks # <<>> =>
                /\ shouldTrack' = Last(marks).shouldTrack
                /\ Len(trackStack') = Last(marks).depth
          /\ trackStack = <<>> => shouldTrack' /\ trackStack' = <<>>]_vars

\* C19 witness: the function of I, called by the function of E while tracking
\* is paused, has paused tracking, enabled it and made its first
\* resetTracking, which matches its enableTracking: tracking is paused again,
\* with the four entries on trackStack that preceded the enableTracking.
C19_Witness ==
    /\ sc = "tracking"
    /\ Len(stack) >= 3 /\ Top.k = "run" /\ Top.e = "I" /\ Top.pc = 5
    /\ stack[Len(stack) - 1].e = "E"
    /\ last.ins.op = "resetTracking" /\ last.by = "I"
    /\ ~shouldTrack /\ Len(trackStack) = 4 /\ Len(marks) = 2

\* C20: in every state, a Dep contains an effect if and only if the effect's
\* deps contains the Dep, and the deps of an effect lists no Dep twice.
C20_DepsMirrorRegistry ==
    \A e \in Effects :
        /\ DepsOf(e) = OwnDeps(e)
        /\ \A i, j \in 1..Len(deps[e]) : deps[e][i] = deps[e][j] => i = j

\* C20 witness: F is running as the second effect of a trigger, after a run
\* that has cleaned it up and in which it has read o.n twice and r through
\* the proxy: it is in the Deps of o.n, o.r and the ref's value, once each.
C20_Witness ==
    /\ sc = "mirror"
    /\ runs["F"] >= 2 /\ activeEffect = "F"
    /\ deps["F"] = <<<<"o", "n">>, <<"o", "r">>, <<"r", "value">>>>
    /\ DepsOf("F") = {<<"o", "n">>, <<"o", "r">>, <<"r", "value">>}
    /\ DepsOf("E") = {<<"o", "n">>}

\* C21: in every state the effect stack holds each effect at most once, and
\* the current effect is the top of the effect stack, undefined exactly when
\* the stack is empty (an invocation's push and pop are each one step here).
C21_StackAndCurrentEffect ==
    /\ \A i, j \in 1..Len(effectStack) : effectStack[i] = effectStack[j] => i = j
    /\ activeEffect = (IF effectStack = <<>> THEN NoEffect ELSE Last(effectStack))
    /\ activeEffect = NoEffect <=> effectStack = <<>>

\* C21 witness: the function of O has called I, whose function is running: the
\* stack holds O and I, and the current effect is I.
C21_Witness ==
    /\ sc = "nested"
    /\ effectStack = <<"O", "I">> /\ activeEffect = "I"
    /\ Top.k = "run" /\ Top.e = "I" /\ runs["O"] >= 2

\* The keys whose Deps the call of trigger described by c selects.
SelectedKeys(c) ==
    LET keys == {c.depsMap[i].key : i \in 1..Len(c.depsMap)}
    IN  IF c.type = "clear" THEN keys
        ELSE IF c.key = "length" /\ isArray(c.target)
             THEN {k \in keys : k = "length" \/ KeyGE(k, c.newValue)}
        ELSE {c.key}
                \cup (IF c.type \in {"add", "delete"} /\ ~isArray(c.target)
                      THEN {ITERATE_KEY} ELSE {})
                \cup (IF c.type = "add" /\ isArray(c.target) /\ isIntegerKey(c.key)
                      THEN {"length"} ELSE {})

\* The effects that were members of a selected Dep when the call c began and
\* that pass the self-trigger filter.
Members(c) ==
    {e \in Effects :
        /\ \E k \in SelectedKeys(c) : InSeq(e, DepGet(c.depsMap, k))
        /\ e # c.activeEffect \/ AllowRecurse(e)}

\* The calls of trigger in progress, as positions of the call stack.
TriggerCalls == {p \in 1..Len(stack) : stack[p].k = "trigger"}

\* What C22 says of each state: a call of trigger in progress has collected
\* the effects that were members of a selected Dep when it began and that pass
\* the filter, each once, and has so far invoked a prefix of them, each once.
C22_State ==
    \A p \in TriggerCalls :
        LET f == stack[p]
        IN  /\ Range(f.effects) = Members(f.from)
            /\ Len(f.effects) = Cardinality(Members(f.from))
            /\ f.i \in 1..Len(f.effects)
            /\ f.invoked = SubSeq(f.effects, 1, f.i - 1)

\* The step invokes effect e, or passes it to its scheduler: the scheduler of a
\* computed marks it dirty, the one of a watcher queues its job or (flush:
\* 'sync', the watcher active) runs it; an effect without one (or with
\* scheduler: job => job()) is run if it is active and not on the effect stack,
\* its raw function is called if it is stopped and has no scheduler.
Dispatches(e) ==
    CASE Scheduler(e) = "computed" -> comp'[ComputedOf(e)].dirty /\ runs' = runs
      [] Scheduler(e) = "pre" -> pending'.pre = Append(pending.pre, Job(e)) /\ runs' = runs
      [] Scheduler(e) = "post" -> pending'.post = Append(pending.post, Job(e)) /\ runs' = runs
      [] Scheduler(e) = "sync" ->
            IF active[e] /\ ~InSeq(e, effectStack)
            THEN runs' = [runs EXCEPT ![e] = @ + 1] ELSE runs' = runs
      [] OTHER ->
            IF active[e] /\ ~InSeq(e, effectStack)
            THEN /\ runs' = [runs EXCEPT ![e] = @ + 1]
                 /\ effectStack' = Append(effectStack, e)
                 /\ Last(stack').k = "run" /\ Last(stack').e = e /\ Last(stack').tracked
            ELSE IF ~active[e] /\ Scheduler(e) = "none"
                 THEN runs' = [runs EXCEPT ![e] = @ + 1] /\ Last(stack') = RunFrame(e, FALSE)
            ELSE runs' = runs /\ effectStack' = effectStack

\* What C22 says of each step: the loop of a call of trigger invokes the next
\* effect it collected and moves on, or returns after the last one; no other
\* step changes what a call in progress collected or has invoked, so that the
\* effects subscribed or unsubscribed meanwhile do not alter it.
C22_Step ==
    /\ ~exc /\ Top.k = "trigger" =>
          /\ Dispatches(Top.effects[Top.i])
          /\ IF Top.i < Len(Top.effects)
             THEN stack'[Len(stack)] =
                     [Top EXCEPT !.i = @ + 1, !.invoked = Append(@, Top.effects[Top.i])]
             ELSE \A p \in Len(stack)..Len(stack') :
                     stack'[p].k = "trigger" => stack'[p].i = 1 /\ stack'[p].invoked = <<>>
    /\ ~exc /\ ~exc' =>
          \A p \in TriggerCalls : p < Len(stack) => stack'[p] = stack[p]

KeyedTrigger(l) ==
    /\ l.ins.op \in {"set", "delete"}
    /\ l.type \in {"set", "add", "delete"}
    /\ ~isRef(l.before.prop)
    /\ ~(isArray(l.ins.t) /\ l.ins.k = "length")

\* The effects of the Dep of key k of the operation's target, before it.
DepBefore(l, k) == Range(DepGet(l.before.depsMap, k))

\* The effects that pass the self-trigger filter of the operation.
PassFilter(l) == {e \in Effects : e # l.before.activeEffect \/ AllowRecurse(e)}

\* C23: for an operation other than CLEAR or a write of an array's length,
\* trigger selects the Dep of the key, for ADD or DELETE on a target that is
\* no array also the Dep of ITERATE_KEY, for ADD of an integer key on an array
\* also the Dep of "length", and no other: the effects it collects are those of
\* these Deps.
C23_SelectedDeps ==
    KeyedTrigger(last) =>
        Ran(last) =
            PassFilter(last) \cap
               (DepBefore(last, last.ins.k)
                  \cup (IF last.type \in {"add", "delete"} /\ ~isArray(last.ins.t)
                        THEN DepBefore(last, ITERATE_KEY) ELSE {})
                  \cup (IF last.type = "add" /\ isArray(last.ins.t)
                           /\ isIntegerKey(last.ins.k)
                        THEN DepBefore(last, "length") ELSE {}))

\* C23 witness: O is subscribed to ITERATE_KEY of the array only, E to its
\* length and F to index 1; the main program has added index 3, which has
\* collected E and not O.
C23_Witness ==
    /\ sc = "array" /\ Quiescent
    /\ lastMain.ins.op = "set" /\ lastMain.ins.k = "3" /\ lastMain.type = "add"
    /\ DepBefore(lastMain, ITERATE_KEY) = {"O"}
    /\ DepBefore(lastMain, "length") = {"E"}
    /\ Ran(lastMain) = {"E"}
    /\ runs["O"] = 1 /\ runs["E"] = 2

\* The operations whose handler calls track, a read of a computed apart.
TrackOps == {"get", "has", "ownKeys", "refGet"}

\* The <<target, key>> the handler of instruction ins calls track with: a get
\* through the proxy that finds a ref reads the ref's value too.
Tracks(ins) ==
    CASE ins.op = "ownKeys" -> {<<ins.t, ITERATE_KEY>>}
      [] ins.op = "get" /\ isRef(ReflectGet(Cur, ins.t, ins.k))
            /\ (~isArray(ins.t) \/ ~isIntegerKey(ins.k)) ->
            {<<ins.t, ins.k>>, <<"r", "value">>}
      [] OTHER -> {<<ins.t, ins.k>>}

\* The <<target, key>> that have a Dep in the registry.
DepKeys == UNION {{<<t, targetMap[t][i].key>> : i \in 1..Len(targetMap[t])} : t \in Targets}

\* C24: track called while shouldTrack is false or while no effect is
\* executing changes nothing: the registry and every effect's deps stay as they
\* are; when it does run it adds the current effect, and no other, to the Dep
\* of (target, key), and to no other Dep.
C24_TrackFrame ==
    [][Does(TrackOps) =>
          IF ~shouldTrack \/ activeEffect = NoEffect
          THEN targetMap' = targetMap /\ deps' = deps
          ELSE /\ \A e \in Effects \ {activeEffect} :
                     deps'[e] = deps[e] /\ DepsOf(e)' = DepsOf(e)
               /\ DepsOf(activeEffect)' = DepsOf(activeEffect) \cup Tracks(last'.ins)
               /\ DepKeys' = DepKeys \cup Tracks(last'.ins)]_vars

\* C24 witness: the function of E has paused tracking and read o.b, and E is
\* in the Dep of "a", which it read before, and in no Dep of "b".
C24_Witness ==
    /\ sc = "tracking" /\ activeEffect = "E" /\ Top.e = "E"
    /\ last.ins.op = "get" /\ last.ins.k = "b" /\ last.by = "E"
    /\ ~last.before.shouldTrack /\ ~shouldTrack
    /\ DepsOf("E") = {<<"o", "a">>}
    /\ <<"o", "b">> \notin DepKeys

\* What the getter of computed c returns on the current values of its sources.
GetterValue(c) ==
    CASE sc = "computed" /\ c = "c1" -> Twice(ReflectGet(Cur, "o", "n"))
      [] sc = "computed" /\ c = "c2" -> PlusOne(Twice(ReflectGet(Cur, "o", "n")))
      [] sc = "computedWrite" /\ c = "c1" -> Twice(ReflectGet(Cur, "o", "n"))
      [] sc = "computedWrite" /\ c = "c2" -> PlusOne(ReflectGet(Cur, "o", "a"))
      [] OTHER -> Undefined

\* C25: when no effect is executing and no operation is in progress, a computed
\* whose effect is active and whose _dirty is false caches the value its getter
\* returns on the current values of its sources, also after a write made to a
\* source while the getter was being evaluated.
C25_CleanCacheIsValid ==
    Quiescent /\ effectStack = <<>> =>
        \A c \in Computeds :
            created[EffectOf(c)] /\ active[EffectOf(c)] /\ ~comp[c].dirty
                => comp[c].value = GetterValue(c)

\* The step begins a call of trigger that has collected subscribers of
\* (c, "value"): its frame is new on the stack.
TriggersValueOf(c) ==
    \E p \in 1..Len(stack') :
        /\ stack'[p].k = "trigger" /\ stack'[p].from.target = c /\ stack'[p].i = 1
        /\ p > Len(stack) \/ stack[p] # stack'[p]

\* The step is the loop of a trigger calling the scheduler of computed c.
SchedulerCalled(c) == ~exc /\ Top.k = "trigger" /\ Top.effects[Top.i] = EffectOf(c)

\* The subscribers of (c, "value") that a trigger called now would collect.
Subscribers(c) ==
    {e \in Range(DepGet(targetMap[c], "value")) : e # activeEffect \/ AllowRecurse(e)}

\* C26: the subscribers of (c, "value") are triggered only in a step that
\* turns _dirty from false to true; a call of the scheduler while c is clean
\* marks it dirty and triggers them, and a call while c is dirty (a second
\* write with no read of c.value in between, or a write before the first
\* read) invokes nothing.
C26_TriggersOnDirtyTransition ==
    [][\A c \in Computeds :
          /\ TriggersValueOf(c) => SchedulerCalled(c) /\ ~comp[c].dirty /\ comp'[c].dirty
          /\ SchedulerCalled(c) /\ ~comp[c].dirty =>
                /\ comp'[c].dirty
                /\ Subscribers(c) # {} => TriggersValueOf(c)
          /\ SchedulerCalled(c) /\ comp[c].dirty =>
                /\ ~TriggersValueOf(c) /\ Len(stack') <= Len(stack)
                /\ runs' = runs /\ comp' = comp /\ pending' = pending]_vars

\* C26 witness: the main program has read c2.value, which subscribed the inner
\* effect of c2 to (c1, "value"), and has then written o.n twice; the second
\* write found c1 dirty and has called its scheduler, and the getters have run
\* once each.
C26_Witness ==
    /\ sc = "computed" /\ Quiescent
    /\ lastMain.type = "set" /\ lastMain.ins.k = "n" /\ lastMain.effects = <<"ec1">>
    /\ lastMain.before.comp["c1"].dirty /\ lastMain.before.runs["ec1"] = 1
    /\ Range(DepGet(targetMap["c1"], "value")) = {"ec2"}
    /\ comp["c2"].dirty /\ runs["ec2"] = 1

\* The invocation of an effect by the runtime returns: the next step runs the
\* finally block of reactiveEffect.
InvocationReturns == ~exc /\ Top.k = "run" /\ Top.tracked /\ NextPc(Top) = 0

\* The programs whose functions call pauseTracking, enableTracking or
\* resetTracking themselves.
TrackingPrograms == {"tracking"}

\* C27: when the invocation of an effect returns, shouldTrack and the depth of
\* the tracking-state stack are what they were just before the invocation,
\* also for a function that calls push, pop, shift, unshift or splice on a
\* reactive array or runs a nested effect that does (the functions that call
\* pauseTracking, enableTracking or resetTracking themselves set apart).
C27_InvocationRestoresTracking ==
    [][sc \notin TrackingPrograms /\ InvocationReturns =>
          /\ shouldTrack' = Top.saved.shouldTrack
          /\ Len(trackStack') = Top.saved.depth]_vars

\* The last operation was a read of c.value by the function of an effect that
\* the runtime is running, answered from the cache.
CachedReadByEffect(l) ==
    /\ l.ins.op = "computedGet" /\ l.by \in Effects
    /\ ~l.before.comp[l.ins.t].dirty

\* C28: a read of c.value by the function of an effect returns the value of
\* the getter for the current values of its sources, so after a write to a
\* source never the value cached before the write, in whatever order the effect
\* and the inner effect of c were subscribed to the source.
C28_NoStaleComputedRead ==
    sc = "computed" /\ CachedReadByEffect(last) => last.value = GetterValue(last.ins.t)

\* The step is the loop of a trigger invoking effect e.
TriggerInvokes(e) == ~exc /\ Top.k = "trigger" /\ Top.effects[Top.i] = e

\* C29: once stop(e) has returned, no call of trigger executes the function
\* of e, not even a call that was in progress and had collected e before an
\* effect it ran earlier called stop(e).
C29_NoRunAfterStop ==
    [][\A e \in Effects : TriggerInvokes(e) /\ Stopped(e) => runs'[e] = runs[e]]_vars

\* The function of effect e, which the runtime is running, writes key k of o,
\* which e has read in this run.
WritesOwnKey(e) ==
    /\ Does({"set"}) /\ last'.by = e /\ last'.ins.t = "o"
    /\ Top.tracked /\ activeEffect = e
    /\ InSeq(e, DepGet(targetMap["o"], last'.ins.k))

\* C30: for an effect e with allowRecurse and no scheduler, a write by its own
\* run to a key it has read collects e (it passes the filter of trigger), and
\* the call of e that follows executes nothing, e being on the effect stack:
\* the function is never entered a second time while it runs, and an
\* invocation of e executes it once.
C30_RecurseRunsOnce ==
    /\ [](\A e \in Effects :
             AllowRecurse(e) /\ Scheduler(e) = "none" => Cardinality(Running(e)) <= 1)
    /\ [][\A e \in Effects :
             AllowRecurse(e) /\ Scheduler(e) = "none" =>
                /\ WritesOwnKey(e) /\ last'.type # "none" => InSeq(e, last'.effects)
                /\ TriggerInvokes(e) /\ InSeq(e, effectStack) =>
                      /\ runs' = runs /\ effectStack' = effectStack
                      /\ Len(stack') <= Len(stack)]_vars

\* C32: each function registered through onInvalidate is executed at most
\* once: after a watcher has executed it before an invocation, it executes it
\* neither before a later invocation nor when the watcher is stopped (a
\* function registered again is a new registration, with an id of its own).
C32_InvalidateRunsOnce ==
    \A w \in Watchers :
        \A x, y \in At(w, "inv") : wlog[w][x].id = wlog[w][y].id => x = y

\* The effects that a function which calls effect() has made so far, and the
\* effects whose function makes them.
InnerEffects == {e \in Range(Program.pool) : created[e]}

OuterEffects ==
    {e \in Effects : \E i \in 1..Len(Body(e)) : Body(e)[i].op = "effectNew"}

\* The executions that the counters rs record for the functions of es.
RECURSIVE SumRuns(_, _)
SumRuns(rs, es) ==
    IF es = {} THEN 0
    ELSE LET e == CHOOSE x \in es : TRUE IN rs[e] + SumRuns(rs, es \ {e})

\* The main program has written key k of o, the write has called trigger, and
\* everything the write caused has ended.
WrittenByMain(k) ==
    /\ Quiescent
    /\ lastMain.ins.op = "set" /\ lastMain.ins.t = "o" /\ lastMain.ins.k = k
    /\ lastMain.type # "none"

\* C31: the inner effects that the earlier runs of an outer effect O made stay
\* active and subscribed to the keys they read, whether O is run again or
\* stopped: once O has run k times, the Dep of the key the inner function
\* reads holds k effects (O being one effect, active or not), and a write to
\* that key executes the inner function k times, once for each of them.
C31_InnerEffectsPersist ==
    /\ \A e \in InnerEffects :
          /\ active[e]
          /\ Running(e) = {} =>
                \A tk \in readLog[e] : InSeq(e, DepGet(targetMap[tk[1]], tk[2]))
    /\ OuterEffects # {} /\ Quiescent =>
          /\ Cardinality(InnerEffects) = SumRuns(runs, OuterEffects)
          /\ Len(DepGet(targetMap["o"], "b")) = SumRuns(runs, OuterEffects)
    /\ OuterEffects # {} /\ WrittenByMain("b") =>
          /\ \A e \in InnerEffects : runs[e] = lastMain.before.runs[e] + 1
          /\ SumRuns(runs, InnerEffects) - SumRuns(lastMain.before.runs, InnerEffects)
             = SumRuns(runs, OuterEffects)

\* C31 witness: O has run twice and has been stopped; the write o.b = 2 that
\* follows has executed the inner function twice, once for the effect of each
\* run of O.
C31_Witness ==
    /\ sc = "inner" /\ WrittenByMain("b")
    /\ runs["O"] = 2 /\ Stopped("O")
    /\ InnerEffects = {"I", "H"}
    /\ runs["I"] = 2 /\ runs["H"] = 2
    /\ DepGet(targetMap["o"], "b") = <<"I", "H">>

====
